---- MODULE Spec2Model ----
(***************************************************************************)
(* Model of the planetary transfer calculator: the planetary_transfer      *)
(* crate (Parent, Planet, Transfer and the unit quantities) as a state     *)
(* machine over the calls a client makes on one Transfer.                  *)
(*                                                                         *)
(* f64 values are modelled as <<n, d, k>>, standing for (n / d) * 10^k     *)
(* with d > 0.  d = 0 encodes the IEEE special values: <<0,0,0>> is NaN,   *)
(* <<1,0,0>> is +inf and <<-1,0,0>> is -inf.  Arithmetic is exact as long  *)
(* as numerator and denominator fit a 32-bit signed integer and            *)
(* falls back to a rounded decimal mantissa otherwise; square roots that   *)
(* are irrational and the transcendental functions are rounded.  Signed    *)
(* zero is not modelled (every zero is +0).                                *)
(***************************************************************************)
EXTENDS Integers, Sequences, FiniteSets, TLC

\* ------------------------------------------------------------------------
\* Integer helpers of the number representation.
\* ------------------------------------------------------------------------

MaxInt == 2147483646 + 1

AbsI(a) == IF a < 0 THEN -a ELSE a

SgnI(a) == IF a < 0 THEN -1 ELSE IF a > 0 THEN 1 ELSE 0

RECURSIVE Gcd(_, _)
Gcd(a, b) == IF b = 0 THEN a ELSE Gcd(b, a % b)

\* a * b fits
MulOK(a, b) == a = 0 \/ b = 0 \/ AbsI(a) <= MaxInt \div AbsI(b)

\* number of trailing decimal zeros of n # 0
RECURSIVE Tz(_)
Tz(n) == IF n # 0 /\ n % 10 = 0 THEN 1 + Tz(n \div 10) ELSE 0

\* floor(sqrt(n)) by Newton's iteration from above
RECURSIVE IsqrtFrom(_, _)
IsqrtFrom(n, x) ==
    LET y == (x + n \div x) \div 2
    IN IF y >= x THEN x ELSE IsqrtFrom(n, y)

Isqrt(n) == IF n < 2 THEN n ELSE IsqrtFrom(n, 46340)

IsSq(n) == Isqrt(n) * Isqrt(n) = n

\* a > 0 as a mantissa of nine digits: <<m, j>> with a ~ m * 10^j and
\* 10^8 <= m < 10^9
RECURSIVE Nine(_, _)
Nine(a, j) ==
    IF a >= 1000000000
    THEN Nine(a \div 10 + (IF a % 10 >= 5 THEN 1 ELSE 0), j + 1)
    ELSE IF a < 100000000 THEN Nine(a * 10, j - 1)
    ELSE <<a, j>>

\* the leading digits of the product of two nine-digit mantissas a and b,
\* by limbs of three digits: <<p, 8>> with a * b ~ p * 10^8 when that p
\* fits, else <<p, 9>> with a * b ~ p * 10^9
TopPick(hi, lo) ==
    IF hi < 200000000 THEN <<hi * 10 + (lo % 1000) \div 100, 8>>
    ELSE <<hi, 9>>

TopJoin(h, lo) == TopPick(h + lo \div 1000, lo)

TopLimbs(a2, a1, a0, b2, b1, b0) ==
    TopJoin(a2 * b2 * 1000 + a2 * b1 + a1 * b2,
            (a2 * b0 + a1 * b1 + a0 * b2)
                + (a1 * b0 + a0 * b1 + (a0 * b0) \div 1000) \div 1000)

TopMul(a, b) ==
    TopLimbs(a \div 1000000, (a \div 1000) % 1000, a % 1000,
             b \div 1000000, (b \div 1000) % 1000, b % 1000)

\* the product of the mantissas A and B (each <<m, j>>) as one factor
FitTop(sign, A, B, P, j) == <<sign * P[1], 1, j + A[2] + B[2] + P[2]>>

FitNine(sign, A, B, j) == FitTop(sign, A, B, TopMul(A[1], B[1]), j)

\* a product that fits is exact; otherwise it is rounded to its leading
\* eight to ten digits: <<a', b', j'>> with a * b * 10^j ~ a' * b' * 10^j'
FitMul(a, b, j) ==
    IF MulOK(a, b) THEN <<a, b, j>>
    ELSE FitNine(SgnI(a) * SgnI(b), Nine(AbsI(a), 0), Nine(AbsI(b), 0), j)

\* k further decimal digits of a quotient q with remainder r (divisor d);
\* <<-1, 0>> when the quotient does not fit
RECURSIVE LongDiv(_, _, _, _)
LongDiv(q, r, d, k) ==
    IF k = 0 THEN <<q, r>>
    ELSE IF q > (MaxInt - 9) \div 10 THEN <<-1, 0>>
    ELSE LongDiv(q * 10 + (r * 10) \div d, (r * 10) % d, d, k - 1)

\* ------------------------------------------------------------------------
\* f64 values.
\* ------------------------------------------------------------------------

NaN == <<0, 0, 0>>
PosInf == <<1, 0, 0>>
NegInf == <<-1, 0, 0>>

\* the finite value (n / d) * 10^k in normal form (d > 0)
QTz(n, d, k, tn, td) == <<n \div (10 ^ tn), d \div (10 ^ td), k + tn - td>>

QGcd(n, d, k, g) == QTz(n \div g, d \div g, k, Tz(n \div g), Tz(d \div g))

Q(n, d, k) ==
    IF n = 0 THEN <<0, 1, 0>> ELSE QGcd(n, d, k, Gcd(AbsI(n), d))

Num(i) == Q(i, 1, 0)

\* the decimal literal m * 10^k
Dec(m, k) == Q(m, 1, k)

IsNaN(x) == x[2] = 0 /\ x[1] = 0
IsInf(x) == x[2] = 0 /\ x[1] # 0
IsFinite(x) == x[2] > 0
Sign(x) == SgnI(x[1])
IsZero(x) == x[2] > 0 /\ x[1] = 0

Neg(x) == <<-x[1], x[2], x[3]>>

Abs(x) == <<AbsI(x[1]), x[2], x[3]>>

\* |x| ~ M * 10^e with D decimal digits in M (x finite, non-zero; D <= 9)
RECURSIVE DecGrow(_, _, _, _, _)
DecGrow(q, r, d, e, D) ==
    IF q >= 10 ^ (D - 1) THEN <<q, e>>
    ELSE DecGrow(q * 10 + (r * 10) \div d, (r * 10) % d, d, e - 1, D)

RECURSIVE DecShrink(_, _, _)
DecShrink(q, e, D) ==
    IF q < 10 ^ D THEN <<q, e>> ELSE DecShrink(q \div 10, e + 1, D)

ToDecOf(n, d, k, D) ==
    IF n \div d >= 10 ^ D THEN DecShrink(n \div d, k, D)
    ELSE DecGrow(n \div d, n % d, d, k, D)

ToDec(x, D) ==
    IF x[2] > MaxInt \div 10
    THEN ToDecOf(AbsI(x[1]), (x[2] + 5) \div 10, x[3] - 1, D)
    ELSE ToDecOf(AbsI(x[1]), x[2], x[3], D)

\* sum of two finite values through 8-digit decimal mantissas
AddDecOrd(sh, hi, sl, lo) ==
    IF hi[2] - lo[2] > 8 THEN Q(sh * hi[1], 1, hi[2])
    ELSE Q(sh * hi[1] + sl * (lo[1] \div (10 ^ (hi[2] - lo[2]))), 1, hi[2])

AddDecOf(x, y, X, Y) ==
    IF X[2] >= Y[2] THEN AddDecOrd(Sign(x), X, Sign(y), Y)
    ELSE AddDecOrd(Sign(y), Y, Sign(x), X)

AddDec(x, y) ==
    IF IsZero(x) THEN y
    ELSE IF IsZero(y) THEN x
    ELSE AddDecOf(x, y, ToDec(x, 8), ToDec(y, 8))

\* the exact sum of a and b (a[3] >= b[3]) when every intermediate value
\* fits, else <<>>
AddT(t1, t2, d, k) ==
    IF AbsI(t1) <= MaxInt - AbsI(t2) THEN Q(t1 + t2, d, k) ELSE <<>>

AddN(b, na, da, db) ==
    IF MulOK(na, db) /\ MulOK(b[1], da) /\ MulOK(da, b[2])
    THEN AddT(na * db, b[1] * da, da * b[2], b[3])
    ELSE <<>>

AddD(a, b, by, da, db) ==
    IF by <= 9 /\ MulOK(a[1], 10 ^ by) THEN AddN(b, a[1] * (10 ^ by), da, db)
    ELSE <<>>

AddG(a, b, g) == AddD(a, b, a[3] - b[3], a[2] \div g, b[2] \div g)

AddExact(a, b) == AddG(a, b, Gcd(a[2], b[2]))

AddPick(x, y, r) == IF r = <<>> THEN AddDec(x, y) ELSE r

AddFin(x, y) ==
    AddPick(x, y, IF x[3] >= y[3] THEN AddExact(x, y) ELSE AddExact(y, x))

\* f64 addition
Add(x, y) ==
    IF IsNaN(x) \/ IsNaN(y) THEN NaN
    ELSE IF IsInf(x) THEN (IF IsInf(y) /\ x # y THEN NaN ELSE x)
    ELSE IF IsInf(y) THEN y
    ELSE AddFin(x, y)

\* f64 subtraction
Sub(x, y) == Add(x, Neg(y))

\* the range of f64: a finite result above f64::MAX (about 1.7976931e308)
\* is infinite, and one below the smallest normal number (about
\* 2.2250738e-308) is the nearest multiple of 2^-1074 (about 4.9406565e-324)
Subnormal(x, n) ==
    Q(Sign(x) * FitMul(n, 49406565, 0)[1] * FitMul(n, 49406565, 0)[2], 1,
      FitMul(n, 49406565, 0)[3] - 331)

\* c is the quotient and remainder of |x| by 2^-1074
ToSubnormal(x, c) ==
    IF c[1] < 0 THEN x
    ELSE Subnormal(x, IF 2 * c[2] >= 49406565 THEN c[1] + 1 ELSE c[1])

\* X is <<mantissa of 8 digits, exponent>> of |x|
InRangeDec(x, X) ==
    IF X[2] > 301 \/ (X[2] = 301 /\ X[1] > 17976931)
    THEN (IF Sign(x) > 0 THEN PosInf ELSE NegInf)
    ELSE IF X[2] > -315 \/ (X[2] = -315 /\ X[1] >= 22250738) THEN x
    ELSE IF X[2] + 331 > 8 THEN x
    ELSE IF X[2] + 331 < 0 THEN ToSubnormal(x, <<0, 0>>)
    ELSE ToSubnormal(x, LongDiv(X[1] \div 49406565, X[1] % 49406565,
                                49406565, X[2] + 331))

InRange(x) ==
    IF x[1] = 0 \/ (x[3] > -300 /\ x[3] < 290) THEN x
    ELSE InRangeDec(x, ToDec(x, 8))

MulFit(x, y, cn, cd) ==
    InRange(Q(cn[1] * cn[2], cd[1] * cd[2], x[3] + y[3] + cn[3] - cd[3]))

MulParts(x, y, g1, g2) ==
    MulFit(x, y, FitMul(x[1] \div g1, y[1] \div g2, 0),
           FitMul(x[2] \div g2, y[2] \div g1, 0))

MulFin(x, y) == MulParts(x, y, Gcd(AbsI(x[1]), y[2]), Gcd(AbsI(y[1]), x[2]))

\* f64 multiplication
Mul(x, y) ==
    IF IsNaN(x) \/ IsNaN(y) THEN NaN
    ELSE IF IsInf(x) \/ IsInf(y)
         THEN (IF Sign(x) * Sign(y) = 0 THEN NaN
               ELSE IF Sign(x) * Sign(y) > 0 THEN PosInf ELSE NegInf)
    ELSE MulFin(x, y)

\* 1 / y for finite y # 0
Recip(y) == <<SgnI(y[1]) * y[2], AbsI(y[1]), -y[3]>>

\* f64 division
Div(x, y) ==
    IF IsNaN(x) \/ IsNaN(y) THEN NaN
    ELSE IF IsInf(x)
         THEN (IF IsInf(y) THEN NaN
               ELSE IF Sign(x) * (IF Sign(y) < 0 THEN -1 ELSE 1) > 0
                    THEN PosInf ELSE NegInf)
    ELSE IF IsInf(y) THEN Num(0)
    ELSE IF IsZero(y)
         THEN (IF IsZero(x) THEN NaN
               ELSE IF Sign(x) > 0 THEN PosInf ELSE NegInf)
    ELSE MulFin(x, Recip(y))

\* f64 comparisons (false whenever an operand is NaN)
Eq(x, y) ==
    /\ ~IsNaN(x)
    /\ ~IsNaN(y)
    /\ IF IsInf(x) \/ IsInf(y) THEN x = y ELSE Sign(Sub(x, y)) = 0

Lt(x, y) ==
    /\ ~IsNaN(x)
    /\ ~IsNaN(y)
    /\ IF IsInf(x) \/ IsInf(y)
       THEN x # y /\ (x = NegInf \/ y = PosInf)
       ELSE Sign(Sub(x, y)) < 0

Le(x, y) == Lt(x, y) \/ Eq(x, y)
Gt(x, y) == Lt(y, x)
Ge(x, y) == Le(y, x)

\* v is evaluated before body, as a Rust expression evaluates a receiver or
\* an operand before it is used
Strict(v, body) == <<v, body>>[2]

\* f64::powi for the exponents the program uses (2 and 3)
Powi(x, p) == IF p = 2 THEN Mul(x, x) ELSE Mul(Mul(x, x), x)

\* |x| as the pair <<integer part, whether the fraction is at least 1/2>>
\* for finite x; the integer part is -1 when it is not representable
IntFracUp(p, d) ==
    IF p[1] < 0 THEN <<-1, FALSE>> ELSE <<p[1], p[2] >= d - p[2]>>

IntFracDown(n, D) == <<n \div D, (n % D) >= D - (n % D)>>

IntFracOf(n, d, k) ==
    IF k >= 0 THEN IntFracUp(LongDiv(n \div d, n % d, d, k), d)
    ELSE IF -k <= 9 /\ MulOK(d, 10 ^ (-k)) THEN IntFracDown(n, d * (10 ^ (-k)))
    ELSE <<0, -k <= 9 /\ n \div d >= 5 * (10 ^ (-k - 1))>>

IntFrac(x) ==
    IF x[2] > MaxInt \div 10
    THEN IntFracOf((AbsI(x[1]) + 5) \div 10, (x[2] + 5) \div 10, x[3])
    ELSE IntFracOf(AbsI(x[1]), x[2], x[3])

\* f64::round: to the nearest integer, halves away from zero
Round(x) ==
    IF ~IsFinite(x) THEN x
    ELSE LET p == IntFrac(x)
         IN  IF p[1] < 0 THEN x
             ELSE IF p[2] /\ p[1] < MaxInt THEN Num(Sign(x) * (p[1] + 1))
             ELSE Num(Sign(x) * p[1])

\* f64::trunc, as used by the remainder operator
Trunc(x) ==
    IF ~IsFinite(x) THEN x
    ELSE LET p == IntFrac(x)
         IN  IF p[1] < 0 THEN x ELSE Num(Sign(x) * p[1])

\* the f64 remainder x % y: sign of the dividend, magnitude below |y|
Fmod(x, y) ==
    IF IsNaN(x) \/ IsNaN(y) \/ IsInf(x) \/ IsZero(y) THEN NaN
    ELSE IF IsInf(y) THEN x
    ELSE Sub(x, Mul(Trunc(Div(x, y)), y))

\* f64::sqrt; exact on rational squares, rounded to 8-9 digits otherwise
SqrtFine(M, s, e, k0) ==
    Q(s * 10000 + ((M - s * s) * 10000) \div (2 * s), 1, (e + k0) \div 2 - 4)

SqrtMant(M, e, k0) == SqrtFine(M, Isqrt(M), e, k0)

SqrtDec(m, k0) ==
    IF m[2] % 2 = 0 THEN SqrtMant(m[1], m[2], k0)
    ELSE SqrtMant(m[1] \div 10, m[2] + 1, k0)

SqrtRed(n, d, k0) ==
    IF IsSq(n) /\ IsSq(d) THEN Q(Isqrt(n), Isqrt(d), k0 \div 2)
    ELSE SqrtDec(ToDec(<<n, d, 0>>, 9), k0)

SqrtG(t, g) == SqrtRed(t[1] \div g, t[2] \div g, t[3])

\* x with an even power of ten
SqrtShift(x) ==
    IF x[3] % 2 = 0 THEN x
    ELSE IF MulOK(x[1], 10) THEN <<x[1] * 10, x[2], x[3] - 1>>
    ELSE <<x[1], x[2] * 10, x[3] + 1>>

SqrtParts(t) == SqrtG(t, Gcd(t[1], t[2]))

SqrtFin(x) == SqrtParts(SqrtShift(x))

\* an odd power of ten whose numerator and denominator both have no room
\* for one more digit gives up the last digit of the numerator
SqrtArg(x) ==
    IF x[3] % 2 = 1 /\ ~MulOK(x[1], 10) /\ ~MulOK(x[2], 10)
    THEN <<x[1] \div 10, x[2], x[3] + 1>>
    ELSE x

Sqrt(x) ==
    IF IsNaN(x) \/ Sign(x) < 0 THEN NaN
    ELSE IF IsInf(x) \/ IsZero(x) THEN x
    ELSE SqrtFin(SqrtArg(x))

\* std::f64::consts::PI and TAU (355/113 and twice that)
PI == Q(355, 113, 0)
TAU == Mul(Num(2), PI)

\* round_to(value, decimal): value * 10^decimal rounded, over 10^decimal
round_to(value, decimal) ==
    Div(Round(Mul(value, Dec(1, decimal))), Dec(1, decimal))

\* ------------------------------------------------------------------------
\* Transcendental functions of f64, evaluated in fixed point with four
\* decimals (series) around the exact values at 0, 1, -1 and PI.
\* ------------------------------------------------------------------------

Fix == 10 ^ 4

\* x as a fixed-point integer (x finite, |x| small)
ToFix(x) ==
    LET p == IntFrac(Mul(x, Dec(1, 4)))
    IN  Sign(x) * (IF p[2] THEN p[1] + 1 ELSE p[1])

FromFix(i) == Dec(i, -4)

Clamp(i, lo, hi) == IF i < lo THEN lo ELSE IF i > hi THEN hi ELSE i

\* cos t = sum (-1)^k t^(2k) / (2k)!
RECURSIVE CosSum(_, _, _)
CosSum(m, t, k) ==
    IF m = 0 THEN 0
    ELSE (IF k % 2 = 0 THEN m ELSE -m)
         + CosSum((((m * t) \div Fix) * t) \div (Fix * (2 * k + 1) * (2 * k + 2)),
                  t, k + 1)

\* sin t = sum (-1)^k t^(2k+1) / (2k+1)!
RECURSIVE SinSum(_, _, _)
SinSum(m, t, k) ==
    IF m = 0 THEN 0
    ELSE (IF k % 2 = 0 THEN m ELSE -m)
         + SinSum((((m * t) \div Fix) * t) \div (Fix * (2 * k + 2) * (2 * k + 3)),
                  t, k + 1)

\* |x| reduced into [0, TAU)
ReduceTau(x) == IF Ge(Abs(x), TAU) THEN Fmod(Abs(x), TAU) ELSE Abs(x)

\* cosine on [0, PI / 2]
CosQ(a) ==
    LET t == ToFix(a)
    IN  IF t = 0 THEN Num(1) ELSE FromFix(Clamp(CosSum(Fix, t, 0), 0, Fix))

\* sine on [0, PI / 2]
SinQ(a) ==
    LET t == ToFix(a)
    IN  IF IsZero(a) THEN Num(0) ELSE FromFix(Clamp(SinSum(t, t, 0), 0, Fix))

\* f64::cos
Cos(x) ==
    IF ~IsFinite(x) THEN NaN
    ELSE LET a == ReduceTau(x)
             b == IF Gt(a, PI) THEN Sub(TAU, a) ELSE a
         IN  IF Gt(b, Div(PI, Num(2))) THEN Neg(CosQ(Sub(PI, b))) ELSE CosQ(b)

\* f64::sin
Sin(x) ==
    IF ~IsFinite(x) THEN NaN
    ELSE LET a  == ReduceTau(x)
             up == Le(a, PI)
             b  == IF up THEN a ELSE Sub(a, PI)
             c  == IF Gt(b, Div(PI, Num(2))) THEN Sub(PI, b) ELSE b
             v  == SinQ(c)
         IN  IF (Sign(x) < 0) = up THEN Neg(v) ELSE v

\* asin t = sum over k of ((2k)! / (4^k (k!)^2 (2k+1))) t^(2k+1)
RECURSIVE AsinSum(_, _, _)
AsinSum(c, t, k) ==
    IF c \div (2 * k + 1) = 0 THEN 0
    ELSE c \div (2 * k + 1)
         + AsinSum((((((c * t) \div Fix) * t) \div Fix) * (2 * k + 1))
                       \div (2 * k + 2),
                   t, k + 1)

\* arcsine on [0, 0.71]
AsinQ(x) ==
    LET t == ToFix(x)
    IN  IF t < 1000
        THEN Mul(x, Add(Num(1), Div(Mul(x, x), Num(6))))
        ELSE FromFix(AsinSum(t, t, 0))

\* f64::acos: NaN outside [-1, 1]
AcosPos(x) ==
    IF Eq(x, Num(1)) THEN Num(0)
    ELSE IF Lt(x, Dec(5, -1)) THEN Sub(Div(PI, Num(2)), AsinQ(x))
    ELSE LET h == Sqrt(Div(Sub(Num(1), x), Num(2)))
         IN  Strict(h, Mul(Num(2), AsinQ(h)))

Acos(x) ==
    IF IsNaN(x) \/ Gt(Abs(x), Num(1)) THEN NaN
    ELSE IF Sign(x) < 0 THEN Sub(PI, AcosPos(Neg(x)))
    ELSE AcosPos(x)

\* y halved until below 2: <<y / 2^m, m>>
RECURSIVE LnReduce(_, _)
LnReduce(y, m) ==
    IF Lt(y, Num(2)) THEN <<y, m>> ELSE LnReduce(Div(y, Num(2)), m + 1)

\* atanh t = sum t^(2k+1) / (2k+1)
RECURSIVE AtanhSum(_, _, _)
AtanhSum(c, t, k) ==
    IF c \div (2 * k + 1) = 0 THEN 0
    ELSE c \div (2 * k + 1)
         + AtanhSum((((c * t) \div Fix) * t) \div Fix, t, k + 1)

\* natural logarithm of y >= 1
Ln(y) ==
    LET r == LnReduce(y, 0)
        z == Div(Sub(r[1], Num(1)), Add(r[1], Num(1)))
        t == ToFix(z)
        a == IF t < 1000
             THEN Mul(z, Add(Num(1), Div(Mul(z, z), Num(3))))
             ELSE FromFix(AtanhSum(t, t, 0))
    IN  Add(Mul(Num(r[2]), Dec(69314718, -8)), Mul(Num(2), a))

\* f64::acosh: NaN below 1
Acosh(x) ==
    IF IsNaN(x) \/ Lt(x, Num(1)) THEN NaN
    ELSE IF IsInf(x) THEN PosInf
    ELSE IF Eq(x, Num(1)) THEN Num(0)
    ELSE LET y == Add(x, Sqrt(Sub(Mul(x, x), Num(1))))
         IN  Strict(y, Ln(y))

\* e^t = sum t^k / k!
RECURSIVE ExpSum(_, _, _)
ExpSum(m, t, k) ==
    IF m = 0 THEN 0 ELSE m + ExpSum((m * t) \div (Fix * (k + 1)), t, k + 1)

\* exponential of a >= 0 by halving the argument
RECURSIVE Exp(_)
Exp(a) ==
    IF Gt(a, Num(1))
    THEN LET h == Exp(Div(a, Num(2))) IN Mul(h, h)
    ELSE FromFix(ExpSum(Fix, ToFix(a), 0))

\* f64::sinh
Sinh(x) ==
    IF ~IsFinite(x) THEN x
    ELSE IF Le(Abs(x), Dec(1, -1))
         THEN Mul(x, Add(Num(1), Div(Mul(x, x), Num(6))))
    ELSE LET E == Exp(Abs(x))
             v == Div(Sub(E, Div(Num(1), E)), Num(2))
         IN  IF Sign(x) < 0 THEN Neg(v) ELSE v

\* ------------------------------------------------------------------------
\* quantities.rs: unit constants and the unit records.
\* ------------------------------------------------------------------------

GRAVITATIONAL_CONSTANT == Dec(66743, -15)
KILOGRAMS_LUNAR == Dec(734767309, 14)
KILOGRAMS_EARTH == Dec(59722, 20)
KILOGRAMS_JOVIAN == Dec(189813, 22)
KILOGRAMS_SOLAR == Dec(198847, 25)
SECONDS_MINUTE == Num(60)
SECONDS_HOUR == Num(3600)
SECONDS_DAY == Num(86400)
SECONDS_MONTH == Num(2629746)
SECONDS_YEAR == Num(31556952)
METERS_AU == Dec(149598023, 3)

from_seconds(seconds) ==
    [s   |-> seconds,
     min |-> Div(seconds, SECONDS_MINUTE),
     h   |-> Div(seconds, SECONDS_HOUR),
     d   |-> Div(seconds, SECONDS_DAY),
     m   |-> Div(seconds, SECONDS_MONTH),
     y   |-> Div(seconds, SECONDS_YEAR)]

\* from_kilograms with the solar field taken with the jovian factor
from_kilograms_solar_as_jovian(mass) ==
    [kg     |-> mass,
     lunar  |-> Div(mass, KILOGRAMS_LUNAR),
     earth  |-> Div(mass, KILOGRAMS_EARTH),
     jovian |-> Div(mass, KILOGRAMS_JOVIAN),
     solar  |-> Div(mass, KILOGRAMS_JOVIAN),
     gravitational_parameter |-> Mul(mass, GRAVITATIONAL_CONSTANT)]

from_kilograms(mass) ==
    [kg     |-> mass,
     lunar  |-> Div(mass, KILOGRAMS_LUNAR),
     earth  |-> Div(mass, KILOGRAMS_EARTH),
     jovian |-> Div(mass, KILOGRAMS_JOVIAN),
     solar  |-> Div(mass, KILOGRAMS_SOLAR),
     gravitational_parameter |-> Mul(mass, GRAVITATIONAL_CONSTANT)]

from_meters(sma) ==
    [m  |-> sma,
     km |-> Div(sma, Dec(1, 3)),
     au |-> Div(sma, METERS_AU)]

from_meters_per_second(velocity) ==
    [mmps |-> Div(velocity, Dec(1, -3)),
     mps  |-> velocity,
     kps  |-> Div(velocity, Dec(1, 3))]

\* calculus!: Add, Sub, Mul<f64> on Velocity go through the base quantity
VelocityAdd(a, b) == from_meters_per_second(Add(a.mps, b.mps))
VelocitySub(a, b) == from_meters_per_second(Sub(a.mps, b.mps))
VelocityMul(a, rhs) == from_meters_per_second(Mul(a.mps, rhs))

\* the other constructors rebuild the whole value from the canonical unit
from_minutes(duration) == from_seconds(Mul(duration, SECONDS_MINUTE))
from_hours(duration) == from_seconds(Mul(duration, SECONDS_HOUR))
from_days(duration) == from_seconds(Mul(duration, SECONDS_DAY))
from_months(duration) == from_seconds(Mul(duration, SECONDS_MONTH))
from_years(duration) == from_seconds(Mul(duration, SECONDS_YEAR))

from_lunar(mass) == from_kilograms(Mul(mass, KILOGRAMS_LUNAR))
from_earth(mass) == from_kilograms(Mul(mass, KILOGRAMS_EARTH))
from_jovian(mass) == from_kilograms(Mul(mass, KILOGRAMS_JOVIAN))

\* from_solar converting with the earth factor
from_solar_as_earth(mass) == from_kilograms(Mul(mass, KILOGRAMS_EARTH))

from_solar(mass) == from_kilograms(Mul(mass, KILOGRAMS_SOLAR))

from_kilometers(sma) == from_meters(Mul(sma, Dec(1, 3)))
from_astronomical_unit(sma) == from_meters(Mul(sma, METERS_AU))

from_millimeters_per_second(velocity) ==
    from_meters_per_second(Mul(velocity, Dec(1, -3)))
from_kilometers_per_second(velocity) ==
    from_meters_per_second(Mul(velocity, Dec(1, 3)))

\* <unit>_updated: *self = Self::from_<unit>(self.<unit>)
kg_updated(self) == from_kilograms(self.kg)
lunar_updated(self) == from_lunar(self.lunar)
earth_updated(self) == from_earth(self.earth)
jovian_updated(self) == from_jovian(self.jovian)
solar_updated(self) == from_solar(self.solar)
m_updated(self) == from_meters(self.m)
km_updated(self) == from_kilometers(self.km)
au_updated(self) == from_astronomical_unit(self.au)
mmps_updated(self) == from_millimeters_per_second(self.mmps)
mps_updated(self) == from_meters_per_second(self.mps)
kps_updated(self) == from_kilometers_per_second(self.kps)

\* Calculus: the base quantity of a value and the constructor from it
base_quantity(kind, self) ==
    CASE kind = "Duration" -> self.s
      [] kind = "Distance" -> self.m
      [] kind = "Velocity" -> self.mps

Calculus_new(kind, quantity) ==
    CASE kind = "Duration" -> from_seconds(quantity)
      [] kind = "Distance" -> from_meters(quantity)
      [] kind = "Velocity" -> from_meters_per_second(quantity)

\* calculus!: the four operators of Duration, Distance and Velocity
calculus_add(kind, self, rhs) ==
    Calculus_new(kind, Add(base_quantity(kind, self), base_quantity(kind, rhs)))
calculus_sub(kind, self, rhs) ==
    Calculus_new(kind, Sub(base_quantity(kind, self), base_quantity(kind, rhs)))
calculus_mul(kind, self, rhs) ==
    Calculus_new(kind, Mul(base_quantity(kind, self), rhs))
calculus_div(kind, self, rhs) ==
    Calculus_new(kind, Div(base_quantity(kind, self), rhs))

\* Duration::iter_with_string: the units from the largest to the smallest
iter_with_string(self) ==
    <<<<self.y, "years">>, <<self.m, "months">>, <<self.d, "days">>,
      <<self.h, "hours">>, <<self.min, "minutes">>, <<self.s, "seconds">>>>

\* smallest_duration keeping only the units strictly above 1.0
smallest_duration_strict(self) ==
    LET items == iter_with_string(self)
        hits  == {i \in 1 .. Len(items) : Gt(items[i][1], Num(1))}
    IN  IF hits # {}
        THEN items[CHOOSE i \in hits : \A j \in hits : i <= j]
        ELSE <<self.s, "seconds">>

\* Duration::smallest_duration: find the first item with item.0 >= 1.0
smallest_duration(self) ==
    LET items == iter_with_string(self)
        hits  == {i \in 1 .. Len(items) : Ge(items[i][1], Num(1))}
    IN  IF hits # {}
        THEN items[CHOOSE i \in hits : \A j \in hits : i <= j]
        ELSE <<self.s, "seconds">>

\* ------------------------------------------------------------------------
\* durations crate: Duration (seconds only) and TimeUnit.
\* ------------------------------------------------------------------------

SECS_PER_MINUTE == Num(60)
SECS_PER_HOURS == Num(3600)
SECS_PER_DAYS == Num(86400)
SECS_PER_MONTHS == Num(2629746)
SECS_PER_YEARS == Num(31556952)

TimeUnit(value, unit) == [value |-> value, unit |-> unit]

durations_from_seconds(seconds) == [seconds |-> seconds]

durations_seconds(self) == TimeUnit(self.seconds, "seconds")
durations_minutes(self) ==
    TimeUnit(Div(self.seconds, SECS_PER_MINUTE), "minutes")
durations_hours(self) == TimeUnit(Div(self.seconds, SECS_PER_HOURS), "hours")
durations_days(self) == TimeUnit(Div(self.seconds, SECS_PER_DAYS), "days")
durations_months(self) ==
    TimeUnit(Div(self.seconds, SECS_PER_MONTHS), "months")
durations_years(self) == TimeUnit(Div(self.seconds, SECS_PER_YEARS), "years")

durations_smallest_duration(self) ==
    IF Gt(durations_years(self).value, Num(1)) THEN durations_years(self)
    ELSE IF Gt(durations_months(self).value, Num(1))
         THEN durations_months(self)
    ELSE IF Gt(durations_days(self).value, Num(1)) THEN durations_days(self)
    ELSE IF Gt(durations_hours(self).value, Num(1)) THEN durations_hours(self)
    ELSE IF Gt(durations_minutes(self).value, Num(1))
         THEN durations_minutes(self)
    ELSE durations_seconds(self)

TimeUnit_round_to(self, decimal) ==
    [self EXCEPT !.value =
        Div(Round(Mul(self.value, Dec(1, decimal))), Dec(1, decimal))]

\* ------------------------------------------------------------------------
\* Text: a String is a sequence of one-character strings.
\* ------------------------------------------------------------------------

DigitChars == <<"0", "1", "2", "3", "4", "5", "6", "7", "8", "9">>

IsDigit(c) == \E i \in 1 .. 10 : DigitChars[i] = c

DigitVal(c) == (CHOOSE i \in 1 .. 10 : DigitChars[i] = c) - 1

\* the decimal digits of n >= 0
RECURSIVE DigitsOf(_)
DigitsOf(n) ==
    IF n < 10 THEN <<DigitChars[n + 1]>>
    ELSE Append(DigitsOf(n \div 10), DigitChars[(n % 10) + 1])

Zeros(k) == [i \in 1 .. k |-> "0"]

\* t without its trailing "0" characters
RECURSIVE StripZeros(_)
StripZeros(t) ==
    IF t # <<>> /\ t[Len(t)] = "0"
    THEN StripZeros(SubSeq(t, 1, Len(t) - 1))
    ELSE t

\* the text of the digits ds times 10^e, with a minus sign when neg
Plain(neg, ds, e) ==
    LET L    == Len(ds)
        int  == IF e >= 0 THEN ds \o Zeros(e)
                ELSE IF -e >= L THEN <<"0">>
                ELSE SubSeq(ds, 1, L + e)
        frac == IF e >= 0 THEN <<>>
                ELSE IF -e >= L THEN StripZeros(Zeros(-e - L) \o ds)
                ELSE StripZeros(SubSeq(ds, L + e + 1, L))
    IN  (IF neg THEN <<"-">> ELSE <<>>)
            \o int \o (IF frac = <<>> THEN <<>> ELSE <<".">> \o frac)

\* X is <<mantissa, exponent>> of |x|
PlainDec(neg, X) == Plain(neg, DigitsOf(X[1]), X[2])

\* f64 Display (to_string): plain decimal notation, no exponent. Digits
\* beyond the ninth significant one are not produced.
to_string(x) ==
    IF IsNaN(x) THEN <<"N", "a", "N">>
    ELSE IF IsInf(x)
         THEN (IF Sign(x) > 0 THEN <<"i", "n", "f">>
               ELSE <<"-", "i", "n", "f">>)
    ELSE IF IsZero(x) THEN <<"0">>
    ELSE PlainDec(Sign(x) < 0, ToDec(x, 9))

\* thousands::Separable: commas between groups of three digits of the
\* first run of digits (the integer part); other text is left as it is
RECURSIVE GroupFrom(_, _)
GroupFrom(ds, i) ==
    IF i > Len(ds) THEN <<>>
    ELSE (IF i > 1 /\ (Len(ds) - i + 1) % 3 = 0 THEN <<",">> ELSE <<>>)
            \o <<ds[i]>> \o GroupFrom(ds, i + 1)

\* the text t with its first run of digits grouped
Grouped(t) ==
    LET first == IF t # <<>> /\ t[1] = "-" THEN 2 ELSE 1
        stops == {i \in first .. Len(t) : ~IsDigit(t[i])}
        last  == IF stops = {} THEN Len(t)
                 ELSE (CHOOSE i \in stops : \A j \in stops : i <= j) - 1
    IN  IF last < first THEN t
        ELSE SubSeq(t, 1, first - 1)
                \o GroupFrom(SubSeq(t, first, last), 1)
                \o SubSeq(t, last + 1, Len(t))

separate_with_commas(x) == Grouped(to_string(x))

\* str::trim: without leading and trailing spaces
RECURSIVE trim(_)
trim(t) ==
    IF t # <<>> /\ t[1] = " " THEN trim(Tail(t))
    ELSE IF t # <<>> /\ t[Len(t)] = " "
         THEN trim(SubSeq(t, 1, Len(t) - 1))
    ELSE t

\* str::replace(',', "")
remove_commas(t) == SelectSeq(t, LAMBDA c : c # ",")

Lower(c) ==
    CASE c = "I" -> "i" [] c = "N" -> "n" [] c = "F" -> "f" [] c = "A" -> "a"
      [] c = "T" -> "t" [] c = "Y" -> "y" [] c = "E" -> "e" [] OTHER -> c

AllDigits(t) == \A i \in 1 .. Len(t) : IsDigit(t[i])

\* the number written by the digits t (at most 9 digits are kept exactly)
RECURSIVE DigitsValue(_, _)
DigitsValue(t, acc) ==
    IF t = <<>> THEN acc
    ELSE IF acc > (MaxInt - 9) \div 10 THEN acc
    ELSE DigitsValue(Tail(t), acc * 10 + DigitVal(t[1]))

\* position of the first character of t that is in cs, 0 if there is none
FirstOf(t, cs) ==
    LET hits == {i \in 1 .. Len(t) : t[i] \in cs}
    IN  IF hits = {} THEN 0 ELSE CHOOSE i \in hits : \A j \in hits : i <= j

\* the value of a mantissa int.frac with the decimal exponent e
Magnitude(int, frac, e) ==
    InRange(Q(DigitsValue(int \o frac, 0), 1, e - Len(frac)))

\* a number in decimal notation, low being its text in lower case without
\* the sign: digits [. digits] [e [+-] digits] with at least one digit in
\* the mantissa
parse_decimal(neg, low) ==
    LET ePos   == FirstOf(low, {"e"})
        mant   == IF ePos = 0 THEN low ELSE SubSeq(low, 1, ePos - 1)
        expo   == IF ePos = 0 THEN <<>> ELSE SubSeq(low, ePos + 1, Len(low))
        eSign  == expo # <<>> /\ expo[1] \in {"+", "-"}
        eNeg   == expo # <<>> /\ expo[1] = "-"
        eDig   == IF eSign THEN Tail(expo) ELSE expo
        dot    == FirstOf(mant, {"."})
        int    == IF dot = 0 THEN mant ELSE SubSeq(mant, 1, dot - 1)
        frac   == IF dot = 0 THEN <<>> ELSE SubSeq(mant, dot + 1, Len(mant))
        okMant == /\ AllDigits(int)
                  /\ AllDigits(frac)
                  /\ Len(int) + Len(frac) >= 1
                  /\ Len(int) + Len(frac) <= 9
        okExp  == ePos = 0 \/ (eDig # <<>> /\ AllDigits(eDig) /\ Len(eDig) <= 3)
        e      == IF ePos = 0 THEN 0
                  ELSE (IF eNeg THEN -1 ELSE 1) * DigitsValue(eDig, 0)
    IN  IF okMant /\ okExp
        THEN <<TRUE, IF neg THEN Neg(Magnitude(int, frac, e))
                     ELSE Magnitude(int, frac, e)>>
        ELSE <<FALSE, NaN>>

\* neg is the sign, low the rest of the text in lower case
parse_unsigned(neg, low) ==
    IF low = <<"n", "a", "n">> THEN <<TRUE, NaN>>
    ELSE IF low = <<"i", "n", "f">>
            \/ low = <<"i", "n", "f", "i", "n", "i", "t", "y">>
         THEN <<TRUE, IF neg THEN NegInf ELSE PosInf>>
    ELSE parse_decimal(neg, low)

LowerAll(t) == [i \in 1 .. Len(t) |-> Lower(t[i])]

\* str::parse::<f64>: <<TRUE, value>> for Ok(value), <<FALSE, NaN>> for Err.
\* Grammar: [+-] ( inf | infinity | nan | decimal ), letters in any case.
parse_f64(t) ==
    IF t # <<>> /\ t[1] \in {"+", "-"}
    THEN parse_unsigned(t[1] = "-", LowerAll(Tail(t)))
    ELSE parse_unsigned(FALSE, LowerAll(t))

\* ------------------------------------------------------------------------
\* lib.rs: Parent, Planet, Transfer.
\* ------------------------------------------------------------------------

Parent(mass) == [mass |-> mass]

Planet(sma, parent) == [sma |-> sma, parent |-> parent]

\* variant: the period growing with the square of the radius
period_square_law(p) ==
    Mul(Mul(Num(2), PI),
        Sqrt(Div(Powi(p.sma.m, 2), p.parent.mass.gravitational_parameter)))

period(p) ==
    Mul(Mul(Num(2), PI),
        Sqrt(Div(Powi(p.sma.m, 3), p.parent.mass.gravitational_parameter)))

\* variant: the ratio under the root inverted
orbital_velocity_inverted(p) ==
    from_meters_per_second(
        Sqrt(Div(p.sma.m, p.parent.mass.gravitational_parameter)))

orbital_velocity(p) ==
    from_meters_per_second(
        Sqrt(Div(p.parent.mass.gravitational_parameter, p.sma.m)))

\* variant: construction never panics
new_never_panics(o, t) == FALSE

\* Transfer::new panics on parents with different gravitational parameters
new_panics(o, t) ==
    ~Eq(o.parent.mass.gravitational_parameter,
        t.parent.mass.gravitational_parameter)

new(o, t) ==
    [origin      |-> o,
     target      |-> t,
     parent      |-> o.parent,
     add_delta_v |-> from_meters_per_second(Num(0))]

\* variant: origin and target radius exchanged under the root
velocity_hohmann_swapped(t) ==
    VelocityMul(orbital_velocity(t.origin),
                Sqrt(Div(Mul(Num(2), t.origin.sma.m),
                         Add(t.origin.sma.m, t.target.sma.m))))

velocity_hohmann(t) ==
    LET ov == orbital_velocity(t.origin)
    IN  Strict(ov,
            VelocityMul(ov, Sqrt(Div(Mul(Num(2), t.target.sma.m),
                                     Add(t.origin.sma.m, t.target.sma.m)))))

delta_v_hohmann(t) ==
    LET vh == velocity_hohmann(t)
        ov == orbital_velocity(t.origin)
    IN  Strict(<<vh, ov>>, VelocitySub(vh, ov))

\* variant: the offset accumulates over calls
set_delta_v_accumulating(t, delta_v) ==
    [t EXCEPT !.add_delta_v =
        VelocityAdd(t.add_delta_v, VelocitySub(delta_v, delta_v_hohmann(t)))]

set_delta_v(t, delta_v) ==
    [t EXCEPT !.add_delta_v = VelocitySub(delta_v, delta_v_hohmann(t))]

launch_velocity(t) ==
    LET vh == velocity_hohmann(t)
    IN  Strict(vh, VelocityAdd(vh, t.add_delta_v))

\* variant: the magnitude of the semi-major axis
sma_magnitude(t) ==
    from_meters(
        Abs(Div(Mul(t.origin.sma.m, t.parent.mass.gravitational_parameter),
                Sub(Mul(Num(2), t.parent.mass.gravitational_parameter),
                    Mul(t.origin.sma.m, Powi(launch_velocity(t).mps, 2))))))

sma(t) ==
    LET v == launch_velocity(t).mps
    IN  Strict(v, from_meters(
            Div(Mul(t.origin.sma.m, t.parent.mass.gravitational_parameter),
                Sub(Mul(Num(2), t.parent.mass.gravitational_parameter),
                    Mul(t.origin.sma.m, Powi(v, 2))))))

\* variant: the sign convention of the older app-layer Transfer
eccentricity_app_layer(t) ==
    Sub(Num(1),
        Div(Mul(t.origin.sma.m, Powi(launch_velocity(t).mps, 2)),
            t.parent.mass.gravitational_parameter))

eccentricity(t) ==
    LET a == sma(t).m
    IN  Strict(a, Sub(Num(1), Div(t.origin.sma.m, a)))

\* variant: the conic equation solved without the "- 1"
true_anomaly_arg_no_offset(t, d) ==
    round_to(Div(Div(Mul(sma(t).m, Sub(Num(1), Powi(eccentricity(t), 2))),
                     d.m),
                 eccentricity(t)),
             5)

\* the argument true_anomaly hands to acos
true_anomaly_arg(t, d) ==
    LET a == sma(t).m
        e == eccentricity(t)
    IN  Strict(<<a, e>>,
            round_to(
                Div(Sub(Div(Mul(a, Sub(Num(1), Powi(e, 2))), d.m), Num(1)), e),
                5))

true_anomaly(t, d) ==
    LET x == true_anomaly_arg(t, d)
    IN  Strict(x, Acos(x))

eccentric_anomaly_cos(t, ta) ==
    LET e == eccentricity(t)
        c == Strict(ta, Cos(ta))
    IN  Strict(<<e, c>>, Div(Add(e, c), Add(Num(1), Mul(e, c))))

\* variant: the test of line 111 without the absolute value
elliptical_signed(t) == Lt(eccentricity(t), Num(1))

\* the test of line 111: self.eccentricity().abs() < 1.0
elliptical(t) == Lt(Abs(eccentricity(t)), Num(1))

\* the branch of line 112
mean_anomaly_elliptical(t, c) ==
    LET e == eccentricity(t)
        E == Strict(c, Acos(c))
    IN  Strict(<<e, E>>, Sub(E, Mul(e, Sin(E))))

\* the branch of line 114
mean_anomaly_hyperbolic(t, c) ==
    LET e == eccentricity(t)
        H == Strict(c, Acosh(c))
    IN  Strict(<<e, H>>, Sub(Mul(e, Sinh(H)), H))

mean_anomaly(t, c) ==
    IF elliptical(t) THEN mean_anomaly_elliptical(t, c)
    ELSE mean_anomaly_hyperbolic(t, c)

origin_true_anomaly_departure(t) == true_anomaly(t, t.origin.sma)

target_true_anomaly_arrival(t) == true_anomaly(t, t.target.sma)

time_of_flight(t) ==
    LET nu_departure == origin_true_anomaly_departure(t)
        nu_arrival == target_true_anomaly_arrival(t)
        c_departure ==
            Strict(nu_departure, eccentric_anomaly_cos(t, nu_departure))
        c_arrival == Strict(nu_arrival, eccentric_anomaly_cos(t, nu_arrival))
        mean_anomaly_departure == Strict(c_departure, mean_anomaly(t, c_departure))
        mean_anomaly_arrival == Strict(c_arrival, mean_anomaly(t, c_arrival))
        a == sma(t).m
    IN  Strict(<<mean_anomaly_departure, mean_anomaly_arrival, a>>,
            from_seconds(
                Mul(Sub(mean_anomaly_arrival, mean_anomaly_departure),
                    Sqrt(Div(Powi(Abs(a), 3),
                             t.parent.mass.gravitational_parameter)))))

target_true_anomaly_departure(t) ==
    LET nu  == target_true_anomaly_arrival(t)
        tof == time_of_flight(t).s
        P   == period(t.target)
    IN  Strict(<<nu, tof, P>>, Fmod(Sub(nu, Div(Mul(TAU, tof), P)), TAU))

origin_true_anomaly_arrival(t) ==
    LET nu  == origin_true_anomaly_departure(t)
        tof == time_of_flight(t).s
        P   == period(t.origin)
    IN  Strict(<<nu, tof, P>>, Fmod(Add(nu, Div(Mul(TAU, tof), P)), TAU))

\* plotting.rs, Protractor::new: the angle the plot shows
Protractor_angle(angle) ==
    Strict(angle, Sub(Fmod(Add(Add(Fmod(angle, TAU), TAU), PI), TAU), PI))

min_velocity(t) == delta_v_hohmann(t)

\* max_velocity with the factor always added, whatever the direction
max_velocity_always_added(t) ==
    VelocityAdd(delta_v_hohmann(t),
                VelocityMul(velocity_hohmann(t), Dec(6, -1)))

max_velocity(t) ==
    IF Lt(t.origin.sma.au, t.target.sma.au)
    THEN VelocityAdd(delta_v_hohmann(t),
                     VelocityMul(velocity_hohmann(t), Dec(6, -1)))
    ELSE VelocitySub(delta_v_hohmann(t),
                     VelocityMul(velocity_hohmann(t), Dec(6, -1)))

\* ------------------------------------------------------------------------
\* The client: planets it can build, one Transfer::new, then set_delta_v.
\* ------------------------------------------------------------------------

MaxRadius == 25
MaxSpeed == 2
DvSteps == 2
MaxCalls == 2
NearDigits == 6

\* catalogue .. calls: a client of planetary_transfer::Transfer
\* qty: a client of the unit quantities; gui: the app (Gui and its widgets)
VARIABLES catalogue, args, transfer, outcome, last_dv, calls, qty, gui

vars == <<catalogue, args, transfer, outcome, last_dv, calls, qty, gui>>

\* a parent whose gravitational parameter is mu
ParentOf(mu) == Parent(from_kilograms(Div(mu, GRAVITATIONAL_CONSTANT)))

\* radii whose Hohmann velocity ratio sqrt(2 r2 / (r1 + r2)) is rational
HohmannExact(r1, r2) ==
    LET x == Q(2 * r2, r1 + r2, 0)
    IN  x[3] % 2 = 0 /\ IsSq(x[1]) /\ IsSq(x[2])

ExactRadii ==
    {r \in (1 .. MaxRadius) \X (1 .. MaxRadius) : HohmannExact(r[1], r[2])}

\* origin on a circular orbit of integer speed k; target around the same
\* parent (k2 = k) or around another one (k2 # k)
ExactCatalogue ==
    {<<Planet(from_meters(Num(r[1])), ParentOf(Num(r[1] * k * k))),
       Planet(from_meters(Num(r[2])), ParentOf(Num(r[1] * k2 * k2)))>> :
        r \in ExactRadii, k \in 1 .. MaxSpeed, k2 \in 1 .. MaxSpeed}

\* target radius within 10^-NearDigits (relative) of the origin radius
NearCatalogue ==
    {<<Planet(from_meters(Num(r)), ParentOf(Num(r * k * k))),
       Planet(from_meters(Mul(Num(r), Add(Num(1), Dec(sg, -NearDigits)))),
              ParentOf(Num(r * k2 * k2)))>> :
        r \in 1 .. MaxRadius, sg \in {-1, 1},
        k \in 1 .. MaxSpeed, k2 \in 1 .. MaxSpeed}

\* the delta-v values the client asks for: from one step below
\* min_velocity() up to max_velocity(), in DvSteps steps
DeltaVs(t) ==
    {VelocityAdd(min_velocity(t),
                 VelocityMul(VelocitySub(max_velocity(t), min_velocity(t)),
                             Q(j, DvSteps, 0))) : j \in -1 .. DvSteps}

Init ==
    /\ catalogue = ExactCatalogue
    /\ args = <<>>
    /\ transfer = <<>>
    /\ outcome = "none"
    /\ last_dv = <<>>
    /\ calls = 0
    /\ qty = <<>>
    /\ gui = <<>>

InitNear ==
    /\ catalogue = NearCatalogue
    /\ args = <<>>
    /\ transfer = <<>>
    /\ outcome = "none"
    /\ last_dv = <<>>
    /\ calls = 0
    /\ qty = <<>>
    /\ gui = <<>>

\* Transfer::new(origin, target)
New(o, t) ==
    /\ outcome = "none"
    /\ args' = <<o, t>>
    /\ IF new_panics(o, t)
       THEN outcome' = "panicked" /\ transfer' = <<>>
       ELSE outcome' = "built" /\ transfer' = <<new(o, t)>>
    /\ UNCHANGED <<catalogue, last_dv, calls, qty, gui>>

\* transfer.set_delta_v(dv)
SetDeltaV(dv) ==
    /\ outcome = "built"
    /\ calls < MaxCalls
    /\ transfer' = <<set_delta_v(transfer[1], dv)>>
    /\ last_dv' = <<dv>>
    /\ calls' = calls + 1
    /\ UNCHANGED <<catalogue, args, outcome, qty, gui>>

Construct == \E p \in catalogue : New(p[1], p[2])

Adjust == outcome = "built" /\ \E dv \in DeltaVs(transfer[1]) : SetDeltaV(dv)

Next == Construct \/ Adjust

Spec == Init /\ [][Next]_vars

SpecNear == InitNear /\ [][Next]_vars

\* ------------------------------------------------------------------------
\* The client that asks for any departure: set_delta_v takes multiples of
\* half the orbital velocity, from a standstill (delta-v = -v_orbital) to
\* well beyond escape.
\* ------------------------------------------------------------------------

MaxLaunch == 1

Launches(t) ==
    {VelocityMul(orbital_velocity(t.origin), Q(j, 2, 0)) :
        j \in -2 .. 2 * MaxLaunch}

Launch == outcome = "built" /\ \E dv \in Launches(transfer[1]) : SetDeltaV(dv)

NextOrbits == Construct \/ Launch

SpecOrbits == Init /\ [][NextOrbits]_vars

\* ------------------------------------------------------------------------
\* The client of the unit quantities: one value is built by a from_<unit>
\* constructor, then rebuilt by <unit>_updated calls (with or without a new
\* number written to the field first) or combined by an operator.
\* ------------------------------------------------------------------------

MaxMantissa == 3
MaxOps == 1

Kinds == {"Mass", "Distance", "Velocity", "Duration"}

Units(kind) ==
    CASE kind = "Mass" -> {"kg", "lunar", "earth", "jovian", "solar"}
      [] kind = "Distance" -> {"m", "km", "au"}
      [] kind = "Velocity" -> {"mmps", "mps", "kps"}
      [] kind = "Duration" -> {"s", "min", "h", "d", "m", "y"}

\* the numbers the client uses: small decimals of several magnitudes, the
\* durations of exactly one minute, hour, day, month and year, and numbers
\* near the lower end of the f64 range
Numbers ==
    {Dec(j, k) : j \in -1 .. MaxMantissa, k \in {-1, 0, 2}}
        \cup {SECONDS_MINUTE, SECONDS_HOUR, SECONDS_DAY, SECONDS_MONTH,
              SECONDS_YEAR}
        \cup {Dec(1, -320), Dec(1, -300), Dec(1, -270)}

\* the numbers written to a field or used as the other operand
Operands == {Num(0), Num(2), Dec(-5, -1)}

\* Self::from_<unit>(x)
from_unit(kind, unit, x) ==
    CASE kind = "Mass" ->
            (CASE unit = "kg" -> from_kilograms(x)
               [] unit = "lunar" -> from_lunar(x)
               [] unit = "earth" -> from_earth(x)
               [] unit = "jovian" -> from_jovian(x)
               [] unit = "solar" -> from_solar(x))
      [] kind = "Distance" ->
            (CASE unit = "m" -> from_meters(x)
               [] unit = "km" -> from_kilometers(x)
               [] unit = "au" -> from_astronomical_unit(x))
      [] kind = "Velocity" ->
            (CASE unit = "mmps" -> from_millimeters_per_second(x)
               [] unit = "mps" -> from_meters_per_second(x)
               [] unit = "kps" -> from_kilometers_per_second(x))
      [] kind = "Duration" ->
            (CASE unit = "s" -> from_seconds(x)
               [] unit = "min" -> from_minutes(x)
               [] unit = "h" -> from_hours(x)
               [] unit = "d" -> from_days(x)
               [] unit = "m" -> from_months(x)
               [] unit = "y" -> from_years(x))

\* self.<unit>_updated(); Duration has no such method
unit_updated(kind, unit, self) ==
    CASE kind = "Mass" ->
            (CASE unit = "kg" -> kg_updated(self)
               [] unit = "lunar" -> lunar_updated(self)
               [] unit = "earth" -> earth_updated(self)
               [] unit = "jovian" -> jovian_updated(self)
               [] unit = "solar" -> solar_updated(self))
      [] kind = "Distance" ->
            (CASE unit = "m" -> m_updated(self)
               [] unit = "km" -> km_updated(self)
               [] unit = "au" -> au_updated(self))
      [] kind = "Velocity" ->
            (CASE unit = "mmps" -> mmps_updated(self)
               [] unit = "mps" -> mps_updated(self)
               [] unit = "kps" -> kps_updated(self))

InitUnits ==
    /\ catalogue = {}
    /\ args = <<>>
    /\ transfer = <<>>
    /\ outcome = "none"
    /\ last_dv = <<>>
    /\ calls = 0
    /\ qty = [kind |-> "none", ops |-> 0]
    /\ gui = <<>>

\* let v = Kind::from_<unit>(x)
Make ==
    /\ qty.kind = "none"
    /\ \E kind \in Kinds : \E unit \in Units(kind) : \E x \in Numbers :
        qty' = [kind |-> kind, val |-> from_unit(kind, unit, x),
                made |-> <<unit, x>>, last |-> "from", ops |-> 0]
    /\ UNCHANGED <<catalogue, args, transfer, outcome, last_dv, calls, gui>>

\* v.<unit>_updated() with the fields as they are
Reconstruct ==
    /\ qty.kind \in Kinds \ {"Duration"}
    /\ qty.ops < MaxOps
    /\ \E unit \in Units(qty.kind) :
        qty' = [qty EXCEPT !.val = unit_updated(qty.kind, unit, qty.val),
                           !.last = unit,
                           !.ops = @ + 1]
    /\ UNCHANGED <<catalogue, args, transfer, outcome, last_dv, calls, gui>>

\* v.<unit> = x; v.<unit>_updated()
Edit ==
    /\ qty.kind \in Kinds \ {"Duration"}
    /\ qty.ops < MaxOps
    /\ \E unit \in Units(qty.kind) : \E x \in Operands :
        qty' = [qty EXCEPT
                    !.val = unit_updated(qty.kind, unit,
                                         [qty.val EXCEPT ![unit] = x]),
                    !.made = <<unit, x>>,
                    !.last = "edited",
                    !.ops = @ + 1]
    /\ UNCHANGED <<catalogue, args, transfer, outcome, last_dv, calls, gui>>

\* v = v + w, v - w, v * x or v / x
Arith ==
    /\ qty.kind \in Kinds \ {"Mass"}
    /\ qty.ops < MaxOps
    /\ \E op \in {"add", "sub", "mul", "div"} : \E x \in Operands :
        LET k == qty.kind
            w == Calculus_new(k, x)
            r == CASE op = "add" -> calculus_add(k, qty.val, w)
                   [] op = "sub" -> calculus_sub(k, qty.val, w)
                   [] op = "mul" -> calculus_mul(k, qty.val, x)
                   [] op = "div" -> calculus_div(k, qty.val, x)
        IN  qty' = [qty EXCEPT !.val = r, !.made = <<op, x>>,
                               !.last = op, !.ops = @ + 1]
    /\ UNCHANGED <<catalogue, args, transfer, outcome, last_dv, calls, gui>>

NextUnits == Make \/ Reconstruct \/ Edit \/ Arith

SpecUnits == InitUnits /\ [][NextUnits]_vars

\* ------------------------------------------------------------------------
\* app/structure.rs: the values behind the controls (each field carries its
\* number and its text) and the app's own Parent, Planet and Transfer.
\* ------------------------------------------------------------------------

LUNAR_MASS == Dec(734767309, 14)
EARTH_MASS == Dec(59722, 20)
JOVIAN_MASS == Dec(189813, 22)
SOLAR_MASS == Dec(198847, 25)
AU_METERS == Dec(149598023, 3)
KM_METERS == Dec(1, 3)

SValue_new(value) == [value |-> value, string |-> to_string(value)]

\* a != b on f64 (true when either is NaN)
Ne(a, b) == ~Eq(a, b)

Velocity_from_mps(velocity) ==
    [mmps |-> SValue_new(Div(velocity, Dec(1, -3))),
     mps  |-> SValue_new(velocity),
     kps  |-> SValue_new(Div(velocity, Dec(1, 3)))]

Velocity_from_kps(velocity) ==
    [Velocity_from_mps(Mul(velocity, Dec(1, 3))) EXCEPT
        !.kps = SValue_new(velocity)]

\* if from != self.<f>.value {self.<f> = SValue::new(from * conversion);}
update_base(self, from, f, conversion) ==
    IF Ne(from, self[f].value)
    THEN [self EXCEPT ![f] = SValue_new(Mul(from, conversion))]
    ELSE self

\* if from != self.<f>.value
\*     {self.<f> = SValue::new(self.<base>.value / factor);}
update_derived(self, from, f, base, factor) ==
    IF Ne(from, self[f].value)
    THEN [self EXCEPT ![f] = SValue_new(Div(self[base].value, factor))]
    ELSE self

\* if from != self.<f>.value
\*     {self.<f> = SValue::new(round_to(self.<base>.value / factor, 2));}
update_rounded(self, from, f, base, factor) ==
    IF Ne(from, self[f].value)
    THEN [self EXCEPT
            ![f] = SValue_new(round_to(Div(self[base].value, factor), 2))]
    ELSE self

Velocity_update(self, from, conversion) ==
    update_derived(
        update_derived(update_base(self, from, "mps", conversion),
                       from, "mmps", "mps", Dec(1, -3)),
        from, "kps", "mps", Dec(1, 3))

\* mps_updated, mmps_updated, kps_updated: self.update(self.<f>.value, ..)
Velocity_updated(self, f) ==
    Velocity_update(self, self[f].value,
                    CASE f = "mps" -> Num(1)
                      [] f = "mmps" -> Dec(1, -3)
                      [] f = "kps" -> Dec(1, 3))

Mass_from_kg(mass) ==
    [kg     |-> SValue_new(mass),
     lunar  |-> SValue_new(Div(mass, LUNAR_MASS)),
     earth  |-> SValue_new(Div(mass, EARTH_MASS)),
     jovian |-> SValue_new(Div(mass, JOVIAN_MASS)),
     solar  |-> SValue_new(Div(mass, SOLAR_MASS))]

Mass_from_lunar(mass) ==
    [Mass_from_kg(Mul(mass, LUNAR_MASS)) EXCEPT !.lunar = SValue_new(mass)]

Mass_from_solar(mass) ==
    [Mass_from_kg(Mul(mass, SOLAR_MASS)) EXCEPT !.solar = SValue_new(mass)]

Mass_update(self, from, conversion) ==
    update_rounded(
        update_rounded(
            update_rounded(
                update_rounded(update_base(self, from, "kg", conversion),
                               from, "lunar", "kg", LUNAR_MASS),
                from, "earth", "kg", EARTH_MASS),
            from, "jovian", "kg", JOVIAN_MASS),
        from, "solar", "kg", SOLAR_MASS)

\* kg_updated, lunar_updated, earth_updated, jovian_updated, solar_updated:
\* self.update(self.<f>.value, <F>_MASS)
Mass_updated(self, f) ==
    Mass_update(self, self[f].value,
                CASE f = "kg" -> Num(1)
                  [] f = "lunar" -> LUNAR_MASS
                  [] f = "earth" -> EARTH_MASS
                  [] f = "jovian" -> JOVIAN_MASS
                  [] f = "solar" -> SOLAR_MASS)

SemiMajorAxis_from_m(axis) ==
    [m  |-> SValue_new(axis),
     km |-> SValue_new(Div(axis, KM_METERS)),
     au |-> SValue_new(Div(axis, AU_METERS))]

SemiMajorAxis_from_km(axis) ==
    [SemiMajorAxis_from_m(Mul(axis, KM_METERS)) EXCEPT !.km = SValue_new(axis)]

SemiMajorAxis_from_au(axis) ==
    [SemiMajorAxis_from_m(Mul(axis, AU_METERS)) EXCEPT !.au = SValue_new(axis)]

SemiMajorAxis_update(self, from, conversion) ==
    update_rounded(
        update_derived(update_base(self, from, "m", conversion),
                       from, "km", "m", KM_METERS),
        from, "au", "m", AU_METERS)

\* m_updated, km_updated, au_updated: self.update(self.<f>.value, ..)
SemiMajorAxis_updated(self, f) ==
    SemiMajorAxis_update(self, self[f].value,
                         CASE f = "m" -> Num(1)
                           [] f = "km" -> KM_METERS
                           [] f = "au" -> AU_METERS)

\* ------------------------------------------------------------------------
\* The client of the app's quantities: one Velocity, Mass or SemiMajorAxis
\* is built by a constructor, then a number is written to one of its fields
\* (as a slider or a text commit does) and <unit>_updated() is called.
\* ------------------------------------------------------------------------

FieldKinds == {"Velocity", "Mass", "SemiMajorAxis"}

\* the fields of a quantity, the canonical one first
Fields(kind) ==
    CASE kind = "Velocity" -> <<"mps", "mmps", "kps">>
      [] kind = "Mass" -> <<"kg", "lunar", "earth", "jovian", "solar">>
      [] kind = "SemiMajorAxis" -> <<"m", "km", "au">>

\* the factor <unit>_updated passes for field f: its size in canonical units
Factor(kind, f) ==
    CASE f \in {"mps", "kg", "m"} -> Num(1)
      [] f = "mmps" -> Dec(1, -3)
      [] f = "kps" -> Dec(1, 3)
      [] f = "lunar" -> LUNAR_MASS
      [] f = "earth" -> EARTH_MASS
      [] f = "jovian" -> JOVIAN_MASS
      [] f = "solar" -> SOLAR_MASS
      [] f = "km" -> KM_METERS
      [] f = "au" -> AU_METERS

\* the constructors the app calls
Constructors(kind) ==
    CASE kind = "Velocity" -> {"mps", "kps"}
      [] kind = "Mass" -> {"kg", "lunar", "solar"}
      [] kind = "SemiMajorAxis" -> {"m", "km", "au"}

Field_from(kind, f, x) ==
    CASE f = "mps" -> Velocity_from_mps(x)
      [] f = "kps" -> Velocity_from_kps(x)
      [] f = "kg" -> Mass_from_kg(x)
      [] f = "lunar" -> Mass_from_lunar(x)
      [] f = "solar" -> Mass_from_solar(x)
      [] f = "m" -> SemiMajorAxis_from_m(x)
      [] f = "km" -> SemiMajorAxis_from_km(x)
      [] f = "au" -> SemiMajorAxis_from_au(x)

Field_updated(kind, self, f) ==
    CASE kind = "Velocity" -> Velocity_updated(self, f)
      [] kind = "Mass" -> Mass_updated(self, f)
      [] kind = "SemiMajorAxis" -> SemiMajorAxis_updated(self, f)

\* the numbers passed to the constructors and written to the fields
FieldNumbers == {Num(0), Num(5), Dec(5, 3), Dec(5, -3), Dec(12345, -4)}

InitFields ==
    /\ catalogue = {}
    /\ args = <<>>
    /\ transfer = <<>>
    /\ outcome = "none"
    /\ last_dv = <<>>
    /\ calls = 0
    /\ qty = [kind |-> "none"]
    /\ gui = <<>>

\* let mut v = Kind::from_<unit>(x)
MakeField ==
    /\ qty.kind = "none"
    /\ \E kind \in FieldKinds : \E f \in Constructors(kind) :
       \E x \in FieldNumbers :
        qty' = [kind |-> kind, val |-> Field_from(kind, f, x),
                edited |-> "none", from |-> x]
    /\ UNCHANGED <<catalogue, args, transfer, outcome, last_dv, calls, gui>>

\* v.<unit>.value = x; v.<unit>_updated()
EditField ==
    /\ qty.kind \in FieldKinds
    /\ qty.edited = "none"
    /\ \E i \in DOMAIN Fields(qty.kind) : \E x \in FieldNumbers :
        qty' = [qty EXCEPT
                    !.val = Field_updated(qty.kind,
                                [qty.val EXCEPT ![Fields(qty.kind)[i]].value = x],
                                Fields(qty.kind)[i]),
                    !.edited = Fields(qty.kind)[i],
                    !.from = x]
    /\ UNCHANGED <<catalogue, args, transfer, outcome, last_dv, calls, gui>>

NextFields == MakeField \/ EditField

SpecFields == InitFields /\ [][NextFields]_vars

app_Parent_new(mass) ==
    [gravitational_parameter |-> Mul(mass, Dec(66743, -15))]

app_Planet_new(axis, parent) == [sma |-> axis, parent |-> parent]

app_orbital_velocity(self) ==
    Sqrt(Div(self.parent.gravitational_parameter, self.sma))

Transfer_of(origin, target, vh) ==
    [origin |-> origin, target |-> target, parent |-> origin.parent,
     velocity |-> vh, velocity_hohmann |-> vh]

\* the app builds both planets around the same parent, so the panic branch
\* of Transfer::new is not reached from update
app_Transfer_new(origin, target) ==
    Transfer_of(origin, target,
                Mul(app_orbital_velocity(origin),
                    Sqrt(Div(Mul(Num(2), target.sma),
                             Add(origin.sma, target.sma)))))

app_set_delta_v(self, delta_v) ==
    [self EXCEPT !.velocity = Add(delta_v, app_orbital_velocity(self.origin))]

app_delta_v_hohmann(self) ==
    Sub(self.velocity_hohmann, app_orbital_velocity(self.origin))

app_eccentricity(self) ==
    Sub(Num(1),
        Div(Mul(self.origin.sma, Powi(self.velocity, 2)),
            self.parent.gravitational_parameter))

app_sma(self) ==
    Div(Mul(self.origin.sma, self.parent.gravitational_parameter),
        Sub(Mul(Num(2), self.parent.gravitational_parameter),
            Mul(self.origin.sma, Powi(self.velocity, 2))))

\* variant: the test of line 313 without the absolute value
app_elliptical_signed(self) ==
    Gt(Sub(Num(1), app_eccentricity(self)), Num(0))

\* the test of line 313: 1.0 - self.eccentricity().abs() > 0.0
app_elliptical(self) ==
    Gt(Sub(Num(1), Abs(app_eccentricity(self))), Num(0))

\* round_to((self.target.sma - self.sma()) / (self.sma() * self.eccentricity()), 5)
app_anomaly_cos(self) ==
    LET a == app_sma(self)
        e == app_eccentricity(self)
    IN  Strict(<<a, e>>,
            round_to(Div(Sub(self.target.sma, a), Mul(a, e)), 5))

\* sqrt(|sma|^3 / mu), the factor of both branches
app_mean_motion_inverse(self) ==
    Sqrt(Div(Powi(Abs(app_sma(self)), 3),
             self.parent.gravitational_parameter))

\* the branch of lines 314-315
app_time_elliptical(self) ==
    LET e == Acos(app_anomaly_cos(self))
    IN  Strict(e,
            Mul(Sub(e, Mul(Abs(app_eccentricity(self)), Sin(e))),
                app_mean_motion_inverse(self)))

\* the branch of lines 317-318
app_time_hyperbolic(self) ==
    LET h == Neg(Acosh(app_anomaly_cos(self)))
    IN  Strict(h,
            Mul(Sub(h, Mul(Abs(app_eccentricity(self)), Sinh(h))),
                app_mean_motion_inverse(self)))

app_time_of_flight(self) ==
    IF app_elliptical(self) THEN app_time_elliptical(self)
    ELSE app_time_hyperbolic(self)

\* f64::signum: 1.0 for positive numbers and +0.0, -1.0 for negative ones
signum(x) ==
    IF IsNaN(x) THEN NaN ELSE IF Sign(x) < 0 THEN Num(-1) ELSE Num(1)

\* f64::min and f64::max: a NaN operand is ignored
f64_min(a, b) == IF IsNaN(a) THEN b ELSE IF IsNaN(b) THEN a
                 ELSE IF Lt(b, a) THEN b ELSE a
f64_max(a, b) == IF IsNaN(a) THEN b ELSE IF IsNaN(b) THEN a
                 ELSE IF Gt(b, a) THEN b ELSE a

\* f64::clamp panics unless min <= max (so also when a bound is NaN)
clamp_panics(min, max) == ~Le(min, max)

\* f64::clamp: NaN stays NaN
clamp(self, min, max) ==
    IF Lt(self, min) THEN min ELSE IF Gt(self, max) THEN max ELSE self

\* ------------------------------------------------------------------------
\* app/app.rs: SliderWithText and Gui::update.
\*
\* What egui does with a control in one frame is the event ev of that
\* control: "idle" (nothing, no focus), "drag" (the slider is dragged to
\* the fraction ev.pos of its range), "gained" (the text field gets the
\* focus), "focused" (it keeps it), "typed" (it keeps it and its text is
\* now ev.text), "lost" (it loses the focus).
\* ------------------------------------------------------------------------

IdleEvent == [kind |-> "idle"]

\* unwrap_or with 0.0 in place of the value of the control
unwrap_or_zero(parsed, default) ==
    IF parsed[1] THEN parsed[2] ELSE Num(0)

\* Result::unwrap_or
unwrap_or(parsed, default) ==
    IF parsed[1] THEN parsed[2] ELSE default

\* the value after the slider is added (line 53). The slider is
\* logarithmic, so ev.pos is not the position of the handle; it picks one
\* of the values of the range, all of which the handle can be dragged to
slider_value(self, ev) ==
    IF ev.kind = "drag"
    THEN Add(self.range[1],
             Mul(ev.pos, Sub(self.range[2], self.range[1])))
    ELSE self.value

\* the text after the text field is added (line 54)
text_edit(self, ev) == IF ev.kind = "typed" THEN ev.text ELSE self.text

\* the value a lost focus leaves (lines 65-68)
committed(self, value, text) ==
    clamp(unwrap_or(parse_f64(remove_commas(trim(text))), value),
          f64_min(self.range[1], self.range[2]),
          f64_max(self.range[1], self.range[2]))

\* the text is rendered from the value (lines 70-71)
rendered(self, value, panicked) ==
    [value |-> value,
     text |-> separate_with_commas(round_to(value, 4)) \o self.suffix,
     panicked |-> panicked]

\* lines 60-72, value and text being what the two widgets left
respond(self, ev, value, text) ==
    IF ev.kind = "gained"
    THEN [value |-> value, text |-> separate_with_commas(value),
          panicked |-> FALSE]
    ELSE IF ev.kind \in {"focused", "typed"}
    THEN [value |-> value, text |-> text, panicked |-> FALSE]
    ELSE IF ev.kind = "lost"
    THEN rendered(self, committed(self, value, text),
                  clamp_panics(f64_min(self.range[1], self.range[2]),
                               f64_max(self.range[1], self.range[2])))
    ELSE rendered(self, value, FALSE)

\* SliderWithText::add_widgets: the slider and the text field are added,
\* then the text is re-rendered or, on loss of focus, parsed and clamped
add_widgets(self, ev) ==
    respond(self, ev, slider_value(self, ev), text_edit(self, ev))

\* SliderWithText::new(&mut q.<f>, range).suffix(suffix)
SliderWithText_new(q, f, range, suffix) ==
    [value |-> q[f].value, text |-> q[f].string,
     range |-> range, suffix |-> suffix]

\* what the widget r leaves in the field f of q: <<q', panicked, the call
\* (the widget, the field it is bound to, the event) and its result>>
written(q, f, self, ev, r) ==
    <<[q EXCEPT ![f] = [value |-> r.value, string |-> r.text]],
      r.panicked,
      [self |-> self, field |-> f, ev |-> ev, value |-> r.value,
       text |-> r.text]>>

\* Widget::ui
SliderWithText_ui(q, f, self, ev) ==
    written(q, f, self, ev, add_widgets(self, ev))

\* ui.add(SliderWithText::new(&mut q.<f>, range).suffix(suffix))
slider_with_text(q, f, range, suffix, ev) ==
    SliderWithText_ui(q, f, SliderWithText_new(q, f, range, suffix), ev)

\* the suffixes of the controls; the solar one is written with the letter
\* s in place of the sun symbol
suffix_of(f) ==
    CASE f = "au" -> <<" ", "a", "u">>
      [] f = "km" -> <<" ", "k", "m">>
      [] f = "m" -> <<" ", "m">>
      [] f = "solar" -> <<" ", "M", "s">>
      [] f = "jovian" -> <<" ", "M", "j">>
      [] f = "earth" -> <<" ", "M", "e">>
      [] f = "lunar" -> <<" ", "M", "l">>
      [] f = "kps" -> <<" ", "k", "m", "/", "s">>
      [] f = "mps" -> <<" ", "m", "/", "s">>
      [] f = "mmps" -> <<" ", "m", "m", "/", "s">>

\* ui.add(SliderWithText::new(&mut q.<f>, lo.<f>.value..=hi.<f>.value)
\*            .suffix(..))
control(q, f, lo, hi, ev) ==
    slider_with_text(q, f, <<lo[f].value, hi[f].value>>, suffix_of(f), ev)

\* the branch of a semi-major axis control (lines 157, 165, 172)
sma_field(axis) ==
    IF Gt(axis.km.value, Num(7500000)) THEN "au"
    ELSE IF Gt(axis.m.value, Num(100000)) THEN "km"
    ELSE "m"

\* self.<axis>.<f>_updated() after the widget returned r
sma_result(f, r) == <<SemiMajorAxis_updated(r[1], f), r[2], r[3]>>

sma_branch(axis, f, ev) ==
    sma_result(f, control(axis, f, SemiMajorAxis_from_km(Num(10)),
                          SemiMajorAxis_from_au(Num(50)), ev))

\* a semi-major axis control (app.rs:154-179 and 185-207)
sma_control(axis, ev) == sma_branch(axis, sma_field(axis), ev)

\* the branch of the mass control (lines 216, 222, 228)
mass_field(mass) ==
    IF Gt(mass.jovian.value, Num(100)) THEN "solar"
    ELSE IF Gt(mass.earth.value, Num(35)) THEN "jovian"
    ELSE IF Gt(mass.lunar.value, Num(8)) THEN "earth"
    ELSE "lunar"

\* self.mass.<f>_updated() after the widget returned r
mass_result(f, r) == <<Mass_updated(r[1], f), r[2], r[3]>>

mass_branch(mass, f, ev) ==
    mass_result(f, control(mass, f, Mass_from_lunar(Dec(5, -2)),
                           Mass_from_solar(Num(100)), ev))

\* the parent mass control (app.rs:213-238)
mass_control(mass, ev) == mass_branch(mass, mass_field(mass), ev)

\* the field the velocity control is bound to (app.rs:248, 259, 270)
velocity_field(velocity) ==
    IF Gt(Abs(velocity.mps.value), Num(1000)) THEN "kps"
    ELSE IF Gt(Abs(velocity.mmps.value), Num(1000)) THEN "mps"
    ELSE "mmps"

\* if self.hohmann {self.velocity.<f>.value = min.<f>.value;}
forced(velocity, f, min, hohmann) ==
    IF hohmann THEN [velocity EXCEPT ![f].value = min[f].value]
    ELSE velocity

\* self.velocity.<f>_updated() after the widget returned r
velocity_result(f, r) == <<Velocity_updated(r[1], f), r[2], r[3]>>

velocity_branch(velocity, f, min, max, hohmann, ev) ==
    velocity_result(f, control(forced(velocity, f, min, hohmann),
                               f, min, max, ev))

\* the velocity control (app.rs:245-280) between min and max; hohmann is
\* the flag after the checkbox of this frame
velocity_control(velocity, min, max, hohmann, ev) ==
    velocity_branch(velocity, velocity_field(velocity), min, max,
                    hohmann, ev)

\* update with set_delta_v applied whatever the Hohmann flag says
explicit_velocity_always(self, tr) ==
    app_set_delta_v(tr, self.velocity.mps.value)

\* if !self.hohmann {transfer.set_delta_v(self.velocity.mps.value)}
explicit_velocity(self, tr) ==
    IF ~self.hohmann THEN app_set_delta_v(tr, self.velocity.mps.value)
    ELSE tr

\* the parent, the planets and the transfer of a frame (app.rs:126-134)
build_transfer(self) ==
    explicit_velocity(self,
        app_Transfer_new(
            app_Planet_new(self.origin_sma.m.value,
                           app_Parent_new(self.mass.kg.value)),
            app_Planet_new(self.target_sma.m.value,
                           app_Parent_new(self.mass.kg.value))))

\* what egui reports to the control w in a frame with the user event e
event_of(self, e, w) ==
    IF e.widget = w THEN e
    ELSE IF self.focus = w THEN [kind |-> "focused"]
    ELSE IdleEvent

\* ui.checkbox(&mut self.hohmann, "Hohmann")
checkbox(self, e) ==
    IF e.widget = "checkbox" THEN ~self.hohmann ELSE self.hohmann

\* the state a frame leaves: tr is its transfer, o, t, m and v are what
\* the four controls returned
update_end(self, e, tr, o, t, m, v) ==
    [origin_sma |-> o[1],
     target_sma |-> t[1],
     mass       |-> m[1],
     velocity   |-> v[1],
     hohmann    |-> checkbox(self, e),
     focus      |-> IF e.kind = "gained" THEN e.widget
                    ELSE IF e.kind = "lost" THEN "none"
                    ELSE self.focus,
     crashed    |-> o[2] \/ t[2] \/ m[2] \/ v[2],
     shown      |-> <<[hohmann  |-> self.hohmann,
                       stored   |-> self.velocity.mps.value,
                       mass     |-> self.mass.kg.value,
                       transfer |-> tr]>>,
     widgets    |-> <<[origin |-> o[3], target |-> t[3],
                       mass |-> m[3], velocity |-> v[3]]>>,
     commit     |-> IF e.kind = "lost"
                    THEN <<[origin |-> o[3], target |-> t[3],
                            mass |-> m[3], velocity |-> v[3]][e.widget]>>
                    ELSE <<>>,
     events     |-> IF e.kind = "idle" THEN self.events
                    ELSE self.events + 1]

\* the controls of a frame whose transfer is tr (app.rs:143-283); the
\* range of the velocity control is taken from tr (lines 245-246)
update_controls(self, e, tr, dvh) ==
    update_end(self, e, tr,
        sma_control(self.origin_sma, event_of(self, e, "origin")),
        sma_control(self.target_sma, event_of(self, e, "target")),
        mass_control(self.mass, event_of(self, e, "mass")),
        velocity_control(self.velocity,
            Velocity_from_mps(dvh),
            Velocity_from_mps(Mul(signum(dvh),
                                  app_orbital_velocity(tr.origin))),
            checkbox(self, e), event_of(self, e, "velocity")))

update_frame(self, e, tr) ==
    update_controls(self, e, tr, app_delta_v_hohmann(tr))

\* Gui::update: one frame. self is the Gui with the field that egui keeps
\* (which text field has the focus); e is what the user does in the frame.
update(self, e) == update_frame(self, e, build_transfer(self))

MaxEvents == 3
\* where a slider is dragged to, as a fraction of its range: both ends and
\* a point between them (on the logarithmic scale a handle near the middle
\* stands for a value a few millionths of the way up the range)
DragPositions == {Num(0), Dec(5, -6), Num(1)}

Controls == {"origin", "target", "mass", "velocity"}

\* the texts the user types
TextEntries ==
    {<<"2", "9">>, <<" ", "1", ",", "0", "0", "0", " ">>,
     <<"a", "b", "c">>, <<>>, <<"N", "a", "N">>, <<"-", "i", "n", "f">>}

\* Gui::default()
Gui_default ==
    [origin_sma |-> SemiMajorAxis_from_au(Num(1)),
     target_sma |-> SemiMajorAxis_from_au(Dec(152366, -5)),
     mass       |-> Mass_from_solar(Num(1)),
     velocity   |-> Velocity_from_kps(Num(3)),
     hohmann    |-> TRUE]

InitGui ==
    /\ catalogue = {}
    /\ args = <<>>
    /\ transfer = <<>>
    /\ outcome = "none"
    /\ last_dv = <<>>
    /\ calls = 0
    /\ qty = <<>>
    /\ gui = [origin_sma |-> Gui_default.origin_sma,
              target_sma |-> Gui_default.target_sma,
              mass       |-> Gui_default.mass,
              velocity   |-> Gui_default.velocity,
              hohmann    |-> Gui_default.hohmann,
              focus      |-> "none",
              crashed    |-> FALSE,
              shown      |-> <<>>,
              widgets    |-> <<>>,
              commit     |-> <<>>,
              events     |-> 0]

\* the semi-major axis and mass controls are inside add_enabled_ui(hohmann);
\* of the velocity control only the slider is disabled, by the flag as the
\* checkbox of the same frame leaves it
TextEnabled(w) == w = "velocity" \/ gui.hohmann
SliderEnabled(w) == IF w = "velocity" THEN ~gui.hohmann ELSE gui.hohmann

\* a frame without input
IdleEvents == {[widget |-> "none", kind |-> "idle"]}

\* a slider is dragged
DragEvents ==
    {[widget |-> w, kind |-> "drag", pos |-> pos] :
        w \in {c \in Controls : gui.focus = "none" /\ SliderEnabled(c)},
        pos \in DragPositions}

\* a text field is clicked
FocusEvents ==
    {[widget |-> w, kind |-> "gained"] :
        w \in {c \in Controls : gui.focus = "none" /\ TextEnabled(c)}}

\* the text of the focused field is edited
TypeEvents ==
    {[widget |-> w, kind |-> "typed", text |-> t] :
        w \in {c \in Controls : gui.focus = c}, t \in TextEntries}

\* the focused field loses the focus
BlurEvents ==
    {[widget |-> w, kind |-> "lost"] : w \in {c \in Controls : gui.focus = c}}

\* the Hohmann checkbox is clicked
ToggleEvents ==
    {[widget |-> "checkbox", kind |-> k] :
        k \in {c \in {"click"} : gui.focus = "none"}}

\* what the user can do in a frame
UserEvents ==
    IdleEvents \cup DragEvents \cup FocusEvents \cup TypeEvents
        \cup BlurEvents \cup ToggleEvents

\* a frame runs while the process is alive: eframe calls Gui::update
Frame ==
    \E e \in UserEvents :
        /\ ~gui.crashed
        /\ e.kind # "idle" => gui.events < MaxEvents
        /\ gui' = update(gui, e)
        /\ UNCHANGED <<catalogue, args, transfer, outcome, last_dv, calls,
                       qty>>

NextGui == Frame

SpecGui == InitGui /\ [][NextGui]_vars

\* ------------------------------------------------------------------------
\* Properties.
\* ------------------------------------------------------------------------

Built == outcome = "built"

\* the Transfer under study and shorthands for its inputs
T == transfer[1]
Mu(t) == t.parent.mass.gravitational_parameter
R1(t) == t.origin.sma.m
R2(t) == t.target.sma.m
Zero == Num(0)
One == Num(1)

\* C1: Transfer::new panics and yields no Transfer exactly when the two
\* parents' gravitational parameters differ; when they are equal it yields
\* a Transfer whose parent is origin's parent and whose additional delta-v
\* is zero.
C1_NewPanicsIffParentsDiffer ==
    outcome # "none" =>
        LET same == Eq(args[1].parent.mass.gravitational_parameter,
                       args[2].parent.mass.gravitational_parameter)
        IN  /\ ~same => outcome = "panicked" /\ transfer = <<>>
            /\ same =>
                /\ outcome = "built"
                /\ Len(transfer) = 1
                /\ T.parent = args[1].parent
                /\ calls = 0 => Eq(T.add_delta_v.mps, Zero)

C1_Witness ==
    /\ outcome = "panicked"
    /\ transfer = <<>>
    /\ args[1].parent # args[2].parent

\* C2 as stated: eccentricity() = 1 - origin.sma * launch_velocity()^2 / mu.
C2_EccentricityAsStated ==
    Built =>
        Eq(eccentricity(T),
           Sub(One, Div(Mul(R1(T), Powi(launch_velocity(T).mps, 2)), Mu(T))))

\* C2 amended: eccentricity() = origin.sma * launch_velocity()^2 / mu - 1
\* (the value 1 - origin.sma / sma(), positive for a launch faster than
\* circular), for every origin radius, parent and launch velocity.
C2_EccentricityAmended ==
    Built =>
        Eq(eccentricity(T),
           Sub(Div(Mul(R1(T), Powi(launch_velocity(T).mps, 2)), Mu(T)), One))

C2_Witness ==
    /\ Built
    /\ calls > 0
    /\ Gt(eccentricity(T), Zero)
    /\ ~Eq(R1(T), R2(T))

\* C3: sma() = origin.sma * mu / (2 mu - origin.sma * launch_velocity()^2),
\* and sma() is negative exactly when eccentricity() > 1.
C3_SmaFormulaAndSign ==
    Built =>
        /\ Eq(sma(T).m,
              Div(Mul(R1(T), Mu(T)),
                  Sub(Mul(Num(2), Mu(T)),
                      Mul(R1(T), Powi(launch_velocity(T).mps, 2)))))
        /\ Lt(sma(T).m, Zero) <=> Gt(eccentricity(T), One)

C3_Witness ==
    /\ Built
    /\ Lt(sma(T).m, Zero)
    /\ Gt(eccentricity(T), One)

\* C4: delta_v_hohmann() is strictly positive when target.sma > origin.sma,
\* strictly negative when target.sma < origin.sma, and zero, with
\* velocity_hohmann() equal to origin.orbital_velocity(), when they are
\* equal.
C4_HohmannDeltaVSign ==
    Built =>
        /\ Gt(R2(T), R1(T)) => Gt(delta_v_hohmann(T).mps, Zero)
        /\ Lt(R2(T), R1(T)) => Lt(delta_v_hohmann(T).mps, Zero)
        /\ Eq(R2(T), R1(T)) =>
            /\ Eq(delta_v_hohmann(T).mps, Zero)
            /\ Eq(velocity_hohmann(T).mps, orbital_velocity(T.origin).mps)

C4_Witness ==
    /\ Built
    /\ Lt(R2(T), R1(T))
    /\ Lt(delta_v_hohmann(T).mps, Zero)

\* C5: after set_delta_v(v), launch_velocity() = velocity_hohmann() +
\* (v - delta_v_hohmann()) = origin.orbital_velocity() + v; the Transfer is
\* the one a single call on a fresh Transfer gives (only the last call
\* matters); origin, target and parent are unchanged; and
\* set_delta_v(delta_v_hohmann()) gives the launch velocity of a fresh
\* Transfer.
C5_SetDeltaV ==
    (Built /\ calls > 0) =>
        LET v     == last_dv[1]
            fresh == new(args[1], args[2])
        IN  /\ Eq(launch_velocity(T).mps,
                  Add(velocity_hohmann(T).mps,
                      Sub(v.mps, delta_v_hohmann(T).mps)))
            /\ Eq(launch_velocity(T).mps,
                  Add(orbital_velocity(T.origin).mps, v.mps))
            /\ T = set_delta_v(fresh, v)
            /\ T.origin = args[1]
            /\ T.target = args[2]
            /\ T.parent = args[1].parent
            /\ Eq(v.mps, delta_v_hohmann(T).mps) =>
                Eq(launch_velocity(T).mps, launch_velocity(fresh).mps)

C5_Witness ==
    /\ Built
    /\ calls >= 2
    /\ ~Eq(T.add_delta_v.mps, Zero)
    /\ Eq(launch_velocity(T).mps,
          Add(orbital_velocity(T.origin).mps, last_dv[1].mps))

StrictlyBetween(a, x, b) == (Lt(a, x) /\ Lt(x, b)) \/ (Lt(b, x) /\ Lt(x, a))

\* C6: for a transfer between different radii whose delta-v was set
\* strictly inside the range from min_velocity() to max_velocity() and whose
\* |eccentricity| is not 1, time_of_flight() is finite and strictly positive.
C6_TimeOfFlightPositiveFinite ==
    (/\ Built
     /\ calls > 0
     /\ ~Eq(R1(T), R2(T))
     /\ StrictlyBetween(min_velocity(T).mps, last_dv[1].mps,
                        max_velocity(T).mps)
     /\ ~Eq(Abs(eccentricity(T)), One)) =>
        /\ IsFinite(time_of_flight(T).s)
        /\ Gt(time_of_flight(T).s, Zero)

\* C7: for every Transfer and for both radii it is asked about, the value
\* true_anomaly hands to acos is a number in [-1, 1], the angle it returns
\* lies in [0, PI], and neither the time of flight nor the phase is NaN.
C7_AcosArgumentInDomain ==
    Built =>
        /\ \A d \in {T.origin.sma, T.target.sma} :
            /\ IsFinite(true_anomaly_arg(T, d))
            /\ Le(Abs(true_anomaly_arg(T, d)), One)
            /\ Ge(true_anomaly(T, d), Zero)
            /\ Le(true_anomaly(T, d), PI)
        /\ ~IsNaN(time_of_flight(T).s)
        /\ ~IsNaN(target_true_anomaly_departure(T))

\* C9: with origin.sma = target.sma and zero additional delta-v,
\* time_of_flight() is half of origin.period().
C9_DegenerateHalfPeriod ==
    (/\ Built
     /\ Eq(R1(T), R2(T))
     /\ Eq(T.add_delta_v.mps, Zero)) =>
        Eq(time_of_flight(T).s, Div(period(T.origin), Num(2)))

\* C10: whenever the phase angle target_true_anomaly_departure() is a
\* number, it lies in (-PI, PI], and so does the angle the plot shows.
C10_PhaseInHalfOpenInterval ==
    (Built /\ IsFinite(target_true_anomaly_departure(T))) =>
        /\ Gt(target_true_anomaly_departure(T), Neg(PI))
        /\ Le(target_true_anomaly_departure(T), PI)
        /\ Gt(Protractor_angle(target_true_anomaly_departure(T)), Neg(PI))
        /\ Le(Protractor_angle(target_true_anomaly_departure(T)), PI)

\* x between a and b (ends included), whichever of the two is the smaller
Between(a, x, b) == (Le(a, x) /\ Le(x, b)) \/ (Le(b, x) /\ Le(x, a))

\* C11: min_velocity() is delta_v_hohmann(); max_velocity() is
\* delta_v_hohmann() + 0.6 velocity_hohmann() when the origin radius is the
\* smaller one and delta_v_hohmann() - 0.6 velocity_hohmann() when it is the
\* larger one; for different radii max_velocity() has the sign of
\* min_velocity() and a strictly larger magnitude.
C11_VelocityRange ==
    Built =>
        LET dvh  == delta_v_hohmann(T).mps
            part == Mul(Dec(6, -1), velocity_hohmann(T).mps)
            lo   == min_velocity(T).mps
            hi   == max_velocity(T).mps
        IN  /\ Eq(lo, dvh)
            /\ Lt(R1(T), R2(T)) => Eq(hi, Add(dvh, part))
            /\ Gt(R1(T), R2(T)) => Eq(hi, Sub(dvh, part))
            /\ ~Eq(R1(T), R2(T)) =>
                /\ Sign(hi) = Sign(lo)
                /\ Sign(lo) # 0
                /\ Gt(Abs(hi), Abs(lo))

C11_Witness ==
    /\ Built
    /\ Gt(R1(T), R2(T))
    /\ Lt(max_velocity(T).mps, min_velocity(T).mps)
    /\ Lt(min_velocity(T).mps, Zero)

\* the argument of acos in true_anomaly before it is rounded
UnroundedArg(t, d) ==
    LET a == sma(t).m
        e == eccentricity(t)
    IN  Strict(<<a, e>>,
            Div(Sub(Div(Mul(a, Sub(Num(1), Powi(e, 2))), d.m), Num(1)), e))

\* C12: after set_delta_v(v) with v between min_velocity() and
\* max_velocity(), the unrounded acos argument of true_anomaly(target.sma)
\* lies in [-1, 1] and launch_velocity() is strictly positive.
C12_RangeReachesTarget ==
    (/\ Built
     /\ calls > 0
     /\ Between(min_velocity(T).mps, last_dv[1].mps, max_velocity(T).mps)) =>
        /\ Ge(UnroundedArg(T, T.target.sma), Neg(One))
        /\ Le(UnroundedArg(T, T.target.sma), One)
        /\ Gt(launch_velocity(T).mps, Zero)

\* a and b are the same f64 number, or both are NaN
Same(a, b) == Eq(a, b) \/ (IsNaN(a) /\ IsNaN(b))

\* all unit fields of v describe the quantity of its canonical field
Consistent(kind, v) ==
    CASE kind = "Mass" ->
            /\ Same(v.lunar, Div(v.kg, Dec(734767309, 14)))
            /\ Same(v.earth, Div(v.kg, Dec(59722, 20)))
            /\ Same(v.jovian, Div(v.kg, Dec(189813, 22)))
            /\ Same(v.solar, Div(v.kg, Dec(198847, 25)))
            /\ Same(v.gravitational_parameter, Mul(v.kg, Dec(66743, -15)))
      [] kind = "Distance" ->
            /\ Same(v.km, Div(v.m, Num(1000)))
            /\ Same(v.au, Div(v.m, Dec(149598023, 3)))
      [] kind = "Velocity" ->
            /\ Same(v.mmps, Mul(v.mps, Num(1000)))
            /\ Same(v.kps, Div(v.mps, Num(1000)))
      [] kind = "Duration" ->
            /\ Same(v.min, Div(v.s, Num(60)))
            /\ Same(v.h, Div(v.s, Num(3600)))
            /\ Same(v.d, Div(v.s, Num(86400)))
            /\ Same(v.m, Div(v.s, Num(2629746)))
            /\ Same(v.y, Div(v.s, Num(31556952)))

\* C15: every Mass, Distance, Velocity or Duration that a from_<unit>
\* constructor, a <unit>_updated call or an operator has produced has each
\* derived field equal to the canonical field divided by the unit's factor,
\* and Mass.gravitational_parameter equal to kg * G.
C15_UnitFieldsConsistent ==
    qty.kind \in Kinds => Consistent(qty.kind, qty.val)

C15_Witness ==
    /\ qty.kind = "Mass"
    /\ qty.last = "edited"
    /\ qty.made[1] = "earth"
    /\ Eq(qty.val.earth, Num(2))
    /\ Eq(qty.val.kg, Dec(119444, 20))

\* |got - want| <= want * 10^-digits
Within(got, want, digits) ==
    Le(Abs(Sub(got, want)), Mul(Abs(want), Dec(1, -digits)))

\* C16: a Mass built from m > 0 kilograms and rebuilt from its lunar,
\* earth, jovian or solar field has kg = m within 1e-9 (relative); a
\* Distance built from d > 0 meters and rebuilt from its au field has m = d
\* within 1e-6 (relative).
C16_UnitRoundTrip ==
    (/\ qty.kind \in {"Mass", "Distance"}
     /\ qty.ops = 1
     /\ qty.made[1] = (IF qty.kind = "Mass" THEN "kg" ELSE "m")
     /\ Gt(qty.made[2], Zero)) =>
        /\ (qty.kind = "Mass"
                /\ qty.last \in {"lunar", "earth", "jovian", "solar"}) =>
                Within(qty.val.kg, qty.made[2], 9)
        /\ (qty.kind = "Distance" /\ qty.last = "au") =>
                Within(qty.val.m, qty.made[2], 6)

\* C16 (amended): the same round trips for 1e-270 kg <= m <= 1e300 kg and
\* 1e-300 m <= d <= 1e300 m, where no derived field leaves the normal f64
\* range far enough to lose the stated precision.
C16_UnitRoundTripInRange ==
    (/\ qty.kind \in {"Mass", "Distance"}
     /\ qty.ops = 1
     /\ qty.made[1] = (IF qty.kind = "Mass" THEN "kg" ELSE "m")
     /\ Ge(qty.made[2],
           IF qty.kind = "Mass" THEN Dec(1, -270) ELSE Dec(1, -300))
     /\ Le(qty.made[2], Dec(1, 300))) =>
        /\ (qty.kind = "Mass"
                /\ qty.last \in {"lunar", "earth", "jovian", "solar"}) =>
                Within(qty.val.kg, qty.made[2], 9)
        /\ (qty.kind = "Distance" /\ qty.last = "au") =>
                Within(qty.val.m, qty.made[2], 6)

C16_Witness ==
    /\ qty.kind = "Mass"
    /\ qty.ops = 1
    /\ qty.made = <<"kg", Num(300)>>
    /\ qty.last = "solar"
    /\ Eq(qty.val.kg, Num(300))

\* C17: smallest_duration returns the first of years, months, days, hours,
\* minutes, seconds whose value is >= 1.0 (1.0 itself qualifies), with that
\* unit's name, and the seconds value with "seconds" when none qualifies.
C17_SmallestDuration ==
    qty.kind = "Duration" =>
        LET v == qty.val
            r == smallest_duration(v)
            q(x) == Ge(x, One)
        IN  /\ q(v.y) => r = <<v.y, "years">>
            /\ (~q(v.y) /\ q(v.m)) => r = <<v.m, "months">>
            /\ (~q(v.y) /\ ~q(v.m) /\ q(v.d)) => r = <<v.d, "days">>
            /\ (~q(v.y) /\ ~q(v.m) /\ ~q(v.d) /\ q(v.h)) =>
                    r = <<v.h, "hours">>
            /\ (~q(v.y) /\ ~q(v.m) /\ ~q(v.d) /\ ~q(v.h) /\ q(v.min)) =>
                    r = <<v.min, "minutes">>
            /\ (~q(v.y) /\ ~q(v.m) /\ ~q(v.d) /\ ~q(v.h) /\ ~q(v.min)) =>
                    r = <<v.s, "seconds">>

C17_Witness ==
    /\ qty.kind = "Duration"
    /\ Eq(qty.val.s, Num(3600))
    /\ smallest_duration(qty.val) = <<Num(1), "hours">>

\* C18: for every number of seconds the durations crate's
\* smallest_duration picks the unit and value that planetary_transfer's
\* smallest_duration picks (the first unit, years down to seconds, with a
\* value >= 1.0, else seconds).
C18_DurationsCrateAgrees ==
    qty.kind = "Duration" =>
        LET r == smallest_duration(qty.val)
            u == durations_smallest_duration(
                     durations_from_seconds(qty.val.s))
        IN  u.unit = r[2] /\ Same(u.value, r[1])

\* the frame the app has just drawn and the text entry it committed
Drawn == Len(gui.shown) > 0
Shown == gui.shown[1]
Committed == Len(gui.commit) > 0
Commit == gui.commit[1]

\* C13: in every frame in which the Hohmann flag is true when the transfer
\* is built, the transfer whose outputs are shown departs with the Hohmann
\* velocity: set_delta_v is not applied, whatever velocity is stored.
C13_HohmannFrameIgnoresStored ==
    (Drawn /\ Shown.hohmann) =>
        /\ Shown.transfer.velocity = Shown.transfer.velocity_hohmann
        /\ Shown.transfer =
               app_Transfer_new(Shown.transfer.origin, Shown.transfer.target)

\* a Hohmann frame whose stored velocity would have given another departure
C13_Witness ==
    /\ Drawn
    /\ Shown.hohmann
    /\ ~Eq(Add(Shown.stored, app_orbital_velocity(Shown.transfer.origin)),
           Shown.transfer.velocity_hohmann)
    /\ Eq(Shown.transfer.velocity, Shown.transfer.velocity_hohmann)

\* C14: in every frame in which the Hohmann flag is false, the velocity
\* handed to set_delta_v lies between delta_v_hohmann() and
\* delta_v_hohmann() +/- 0.6 velocity_hohmann() of that frame's transfer.
C14_ExplicitVelocityInRange ==
    (Drawn /\ ~Shown.hohmann) =>
        LET tr   == Shown.transfer
            dvh  == app_delta_v_hohmann(tr)
            part == Mul(Dec(6, -1), tr.velocity_hohmann)
            far  == IF Lt(tr.origin.sma, tr.target.sma)
                    THEN Add(dvh, part) ELSE Sub(dvh, part)
        IN  Between(dvh, Shown.stored, far)

\* C19: whenever a text entry is committed, the value of the control lies
\* afterwards within [min(start, end), max(start, end)] of its range,
\* whatever text was typed.
C19_CommitWithinRange ==
    Committed =>
        LET lo == f64_min(Commit.self.range[1], Commit.self.range[2])
            hi == f64_max(Commit.self.range[1], Commit.self.range[2])
        IN  Le(lo, Commit.value) /\ Le(Commit.value, hi)

\* the committed text as the parser sees it
CommitParse == parse_f64(remove_commas(trim(Commit.self.text)))

LibOf(s) ==
    LET parent == Parent(from_kilograms(s.mass))
        fresh  == new(Planet(from_meters(s.transfer.origin.sma), parent),
                      Planet(from_meters(s.transfer.target.sma), parent))
    IN  IF s.hohmann THEN fresh
        ELSE set_delta_v(fresh, from_meters_per_second(s.stored))

\* x is the figure v to its last stated digit (half is half a unit of it)
Stated(x, v, half) == Le(Abs(Sub(x, v)), half)

\* eccentricity, seconds and days of the reference scenario as stated
ReferenceOrbit(t) ==
    /\ Gt(eccentricity(t), Zero)
    /\ Stated(eccentricity(t), Dec(208, -3), Dec(5, -4))
    /\ Stated(time_of_flight(t).s, Dec(224, 5), Dec(5, 4))
    /\ Stated(time_of_flight(t).d, Num(259), Dec(5, -1))

\* the frame shown is the reference scenario: 1 AU, 1.52366 AU, one solar
\* mass, Hohmann
Reference ==
    /\ Drawn
    /\ Shown.hohmann
    /\ Eq(Shown.transfer.origin.sma, from_astronomical_unit(Num(1)).m)
    /\ Eq(Shown.transfer.target.sma,
          from_astronomical_unit(Dec(152366, -5)).m)
    /\ Eq(Shown.mass, from_solar(Num(1)).kg)

\* C21 as stated: in the reference scenario (origin 1 AU, target 1.52366
\* AU, one solar mass, no set_delta_v) the eccentricity is positive and
\* 0.208, the time of flight 2.24e7 seconds, that is 259 days, and the phase
\* angle 0.75 rad, each to the digits given.
C21_PhaseAsStated ==
    Reference =>
        /\ ReferenceOrbit(LibOf(Shown))
        /\ Stated(target_true_anomaly_departure(LibOf(Shown)),
                  Dec(75, -2), Dec(5, -3))

\* C21: in the reference scenario the eccentricity is positive and 0.208,
\* the time of flight 2.24e7 seconds, that is 259 days, and the phase angle
\* 0.774 rad, each to the digits given.
C21_ReferenceScenario ==
    Reference =>
        /\ ReferenceOrbit(LibOf(Shown))
        /\ Stated(target_true_anomaly_departure(LibOf(Shown)),
                  Dec(774, -3), Dec(5, -4))

\* the first frame of the app shows the reference scenario, and its time
\* of flight is between 258 and 260 days
C21_Witness ==
    /\ Reference
    /\ gui.events = 0
    /\ Eq(LibOf(Shown).add_delta_v.mps, Zero)
    /\ Gt(time_of_flight(LibOf(Shown)).d, Num(258))
    /\ Lt(time_of_flight(LibOf(Shown)).d, Num(260))

\* planetary_transfer's mean_anomaly of t takes the branch that |e| selects
LibBranch(t, c) ==
    IF StrictlyBetween(Neg(One), eccentricity(t), One)
    THEN Same(mean_anomaly(t, c), mean_anomaly_elliptical(t, c))
    ELSE Same(mean_anomaly(t, c), mean_anomaly_hyperbolic(t, c))

\* the app's time_of_flight of a takes the branch that |e| selects
AppBranch(a) ==
    IF StrictlyBetween(Neg(One), app_eccentricity(a), One)
    THEN Same(app_time_of_flight(a), app_time_elliptical(a))
    ELSE Same(app_time_of_flight(a), app_time_hyperbolic(a))

\* the app's Transfer for the inputs of the planetary_transfer Transfer t:
\* the same radii and parent mass, and set_delta_v with the same value when
\* the client has called it
AppOf(t) ==
    LET parent == app_Parent_new(t.parent.mass.kg)
        fresh  == app_Transfer_new(app_Planet_new(R1(t), parent),
                                   app_Planet_new(R2(t), parent))
    IN  IF calls = 0 THEN fresh ELSE app_set_delta_v(fresh, last_dv[1].mps)

\* C22: mean_anomaly and both time_of_flight functions use the elliptical
\* formula exactly when -1 < e < 1 and the hyperbolic formula for every
\* other eccentricity (e = 1, e = -1, e < -1, e > 1, NaN); the departure
\* and the arrival anomaly of one transfer are on the same branch.
C22_BranchOnAbsEccentricity ==
    Built =>
        /\ LibBranch(T, eccentric_anomaly_cos(T,
                            origin_true_anomaly_departure(T)))
        /\ LibBranch(T, eccentric_anomaly_cos(T,
                            target_true_anomaly_arrival(T)))
        /\ AppBranch(AppOf(T))

\* a departure at twice the orbital velocity: the app's eccentricity is -3
\* and its time of flight is the finite value of the hyperbolic formula
C22_Witness ==
    /\ Built
    /\ calls > 0
    /\ Eq(app_eccentricity(AppOf(T)), Num(-3))
    /\ Eq(eccentricity(T), Num(3))
    /\ Eq(app_time_of_flight(AppOf(T)), app_time_hyperbolic(AppOf(T)))
    /\ IsFinite(app_time_of_flight(AppOf(T)))
    /\ IsNaN(app_time_elliptical(AppOf(T)))

\* C26: for the same radii, parent mass and set_delta_v argument (or none)
\* planetary_transfer::Transfer and the app's Transfer have the same launch
\* velocity, the same sma() and the same eccentricity(), sign included.
C26_TransfersAgree ==
    Built =>
        /\ Same(AppOf(T).velocity, launch_velocity(T).mps)
        /\ Same(app_sma(AppOf(T)), sma(T).m)
        /\ Same(app_eccentricity(AppOf(T)), eccentricity(T))

\* what the two implementations do share: launch velocity and sma(), and
\* eccentricities of equal magnitude
TransfersAgreeUpToSign ==
    Built =>
        /\ Same(AppOf(T).velocity, launch_velocity(T).mps)
        /\ Same(app_sma(AppOf(T)), sma(T).m)
        /\ Same(app_eccentricity(AppOf(T)), Neg(eccentricity(T)))

\* the canonical field of the quantity under study
Canonical == qty.val[Fields(qty.kind)[1]].value

\* C23: after <unit>_updated() on an app-layer Velocity, Mass or
\* SemiMajorAxis whose <unit> field was given a new number, the canonical
\* field is that number times the unit's factor and every other field is
\* the canonical value divided by its own factor.
C23_AppFieldsConsistent ==
    (qty.kind \in FieldKinds /\ qty.edited # "none") =>
        /\ Same(Canonical, Mul(qty.from, Factor(qty.kind, qty.edited)))
        /\ \A i \in DOMAIN Fields(qty.kind) :
             Fields(qty.kind)[i] # qty.edited =>
                Same(qty.val[Fields(qty.kind)[i]].value,
                     Div(Canonical, Factor(qty.kind, Fields(qty.kind)[i])))

\* the canonical inputs of the Gui g: both radii in meters and the mass in
\* kilograms
Inputs(g) == <<g.origin_sma.m.value, g.target_sma.m.value, g.mass.kg.value>>

\* the step is a frame without a user event
IdleStep == gui' # gui /\ gui'.events = gui.events

\* x and y are the same number up to the rounding of the last digits
Unchanged(x, y) == Same(x, y) \/ Within(x, y, 6)

\* C24: a frame of Gui::update without user interaction leaves the origin
\* and target semi-major axis in meters and the parent mass in kilograms
\* unchanged (up to one part in a million), whatever edits came before.
C24_IdleFrameKeepsInputs ==
    [][IdleStep =>
          \A i \in 1 .. 3 : Unchanged(Inputs(gui')[i], Inputs(gui)[i])]_vars

\* the call of SliderWithText::add_widgets for the control w in the frame
\* just drawn: the widget before the call, the field it is bound to, the
\* event, and value and text after the call
Call(w) == gui.widgets[1][w]

\* the field the control w was bound to, as the frame leaves it
Bound(w) ==
    (CASE w = "origin" -> gui.origin_sma
       [] w = "target" -> gui.target_sma
       [] w = "mass" -> gui.mass
       [] w = "velocity" -> gui.velocity)[Call(w).field]

\* text and value x are synchronized as the event kind of the call c asks:
\* rendered (4 decimals, separators, suffix) without focus, the unrounded
\* value in the frame that gains the focus, the text field's text and the
\* slider's value while the focus is kept
Synchronized(c, x) ==
    /\ c.ev.kind \in {"idle", "drag", "lost"} =>
            x.string = separate_with_commas(round_to(x.value, 4))
                           \o c.self.suffix
    /\ c.ev.kind = "gained" =>
            /\ x.string = separate_with_commas(x.value)
            /\ x.value = c.self.value
    /\ c.ev.kind = "focused" =>
            /\ x.string = c.self.text
            /\ x.value = c.self.value
    /\ c.ev.kind = "typed" =>
            /\ x.string = c.ev.text
            /\ x.value = c.self.value
    /\ c.ev.kind = "idle" => x.value = c.self.value

\* C27: at the end of a frame in which the text field has no focus and did
\* not gain it, the text is the value rounded to 4 decimals, with thousands
\* separators and the suffix; in the frame in which it gains the focus the
\* text is the unrounded value without suffix; while it keeps the focus
\* the text is what the text field holds and the value is untouched; the
\* value comes from the text only in the frame that loses the focus.
C27_TextFollowsValue ==
    Drawn => \A w \in Controls : Synchronized(Call(w), Bound(w))

\* the same when add_widgets returns, before <unit>_updated() runs
WidgetSynchronized ==
    Drawn =>
        \A w \in Controls :
            Synchronized(Call(w), [value |-> Call(w).value,
                                   string |-> Call(w).text])

\* the same at the end of the frame for every value but NaN
SynchronizedUnlessNaN ==
    Drawn =>
        \A w \in Controls :
            IsNaN(Call(w).value) \/ Synchronized(Call(w), Bound(w))

====
